---- MODULE Spec2Model ----
(***************************************************************************)
(* A model of the algebraic multigrid core of faspsolver:                  *)
(*   - the classical Ruge-Stuben C/F splitter, form_coarse_level           *)
(*     (base/src/coarsening_rs.c), specification SpecCF;                   *)
(*   - the recursive multigrid cycle, fasp_solver_mgrecur                  *)
(*     (base/src/mgrecur.c), specification SpecCycle;                      *)
(*   - the setup loops fasp_amg_setup_rs, fasp_amg_setup_rs_omp and        *)
(*     amg_setup_unsmoothP_unsmoothR, specification SpecSetup.             *)
(***************************************************************************)
EXTENDS Integers, Sequences, FiniteSets, TLC

(***************************************************************************)
(* Bounds of the model.                                                    *)
(***************************************************************************)
NumV     == 4   \* number of rows of the level matrix A given to the splitter
MaxEdges == 4   \* largest number of strong couplings in S
MaxLevels == 3  \* largest number of levels of a hierarchy given to the cycle
MaxAgEdges == 3 \* largest number of strong couplings in S, aggressive path

(***************************************************************************)
(* Vertex labels, core/include/messages.h.                                 *)
(***************************************************************************)
FGPT == 0
CGPT == 1
ISPT == 2
UNPT == -1

(***************************************************************************)
(* Cycle types, core/include/messages.h.                                   *)
(***************************************************************************)
V_CYCLE == 1
W_CYCLE == 2
AMLI_CYCLE == 3

VARIABLES
    \* ---- form_coarse_level ----
    S,              \* strength graph: S[i] is row i of S, in storage order
    nnzRow,         \* ia[i+1]-ia[i]: stored entries of row i of A
    interp_type,    \* interpolation type handed to the splitter
    vec,            \* vertices->val
    lambda,         \* the measure array
    lists,          \* the bucket queue (LoL_head .. LoL_tail)
    num_left,       \* unsigned count of the undecided vertices
    col,            \* number of coarse points, the value returned
    pc,             \* position in form_coarse_level
    i,              \* loop variable of the second pass
    ci_tilde,
    ci_tilde_mark,
    C_i_nonempty,
    graph_array,
    \* ---- the hierarchy mgl[] ----
    num_levels,     \* mgl[l].num_levels
    nnz,            \* nnz[l] is mgl[l].A.nnz
    mgl_cycle_type, \* mgl_cycle_type[l] is mgl[l].cycle_type
    \* ---- fasp_solver_mgrecur ----
    cycle_type,     \* param->cycle_type
    stack,          \* the active calls, outermost first
    trace,          \* the operations performed so far, as <<op, level>>
    differs,        \* differs[l]: which of x, b, w of level l a leftover can reach
    \* ---- the setup functions ----
    amg_setup,      \* the setup function that runs
    param,          \* the fields of AMG_param the setup reads and writes
    consts,         \* MIN_CDOF and MAX_CRATE
    rows,           \* rows[l+1] is mgl[l].A.row
    level,          \* level, lvl
    max_levels,     \* the local max_levels
    status,
    setup_pc,       \* "loop", "returned" or "exit"
    stop,           \* why the loop was left
    singular,       \* a singular block has been handed to invden
    iterations,     \* turns of the main loop started so far
    \* ---- generate_S ----
    strong_threshold, \* param->strong_threshold, as <<numerator, denominator>>
    max_row_sum,    \* param->max_row_sum, as <<numerator, denominator>>
    gs_i,           \* the row index i of the loop of generate_S
    gs_pc,          \* "row" before the turn for row gs_i, "done" after it
    A_row,          \* row gs_i of A: stored column |-> value
    S_row,          \* row gs_i of S after compression
    \* ---- form_coarse_level_ag ----
    ag_pc,          \* position in form_coarse_level_ag
    Sh,             \* strong couplings between the temporary coarse points
    cp_index,       \* CGPT_index: coarse index |-> vertex
    ag_lambda,      \* lambda of form_coarse_level_ag, by coarse index
    ag_lists,       \* the bucket queue of form_coarse_level_ag
    ag_num_left,    \* unsigned count of the coarse points in the queue
    ag_col,         \* col of form_coarse_level_ag, the value returned
    omp,            \* the build and the team of the phase-three region
    chunk,          \* chunk[myid]: the row i and flag of iteration myid
    sub_col,        \* sub_col[t]: the private sub_col of thread t
    vec_phase3,     \* the labels at the start of phase three
    \* ---- generate_sparsity_P, interp_RS, interp_STD: one row of P ----
    vertices,       \* vertices->val handed to the interpolation
    ip_i,           \* the row i of P that is followed
    S_i,            \* row i of S, in storage order
    weights,        \* the values step 3 of the interpolation gives row i
    epsilon_tr,     \* param->truncation_threshold, <<numerator, denominator>>
    P_col,          \* P->col
    P_i,            \* row i of P: entries [ja, val], val = <<num, den>>
    ip_pc,          \* "sparsity", "interp", "done"
    \* ---- fasp_dcsr_trans and the Galerkin product of one level ----
    mgl_A,          \* mgl[level].A, dense: mgl_A[i][j]
    mgl_P,          \* mgl[level].P in CSR form: [row, col, nnz, IA, JA, val]
    mgl_R,          \* mgl[level].R in CSR form
    mgl_A1,         \* mgl[level+1].A, dense
    rap_pc,         \* "trans", "rap", "done"
    \* ---- fasp_dcsr_sort ----
    sort_in,        \* the matrix A at the call, in CSR form
    sort_A,         \* the matrix A, sorted in place
    sort_pc         \* "sort", "done", "out of bounds"

cfVars == <<S, nnzRow, interp_type, vec, lambda, lists, num_left, col, pc, i,
            ci_tilde, ci_tilde_mark, C_i_nonempty, graph_array>>

hVars == <<num_levels, nnz, mgl_cycle_type>>

cyVars == <<cycle_type, stack, trace, differs>>

suVars == <<amg_setup, param, consts, rows, level, max_levels, status,
            setup_pc, stop, singular, iterations>>

gsVars == <<strong_threshold, max_row_sum, gs_i, gs_pc, A_row, S_row>>

agVars == <<ag_pc, Sh, cp_index, ag_lambda, ag_lists, ag_num_left, ag_col,
            omp, chunk, sub_col, vec_phase3>>

ipVars == <<vertices, ip_i, S_i, weights, epsilon_tr, P_col, P_i, ip_pc>>

rapVars == <<mgl_A, mgl_P, mgl_R, mgl_A1, rap_pc>>

sortVars == <<sort_in, sort_A, sort_pc>>

laterVars == <<ipVars, rapVars, sortVars>>

newVars == <<gsVars, agVars, laterVars>>

vars == <<cfVars, hVars, cyVars, suVars, newVars>>

V == 0 .. (NumV - 1)

(***************************************************************************)
(* Inputs of the splitter.                                                 *)
(***************************************************************************)
\* the off-diagonal positions of A
Pairs == {e \in V \X V : e[1] # e[2]}

\* the members of a set of vertices in ascending order
RECURSIVE Ascending(_)
Ascending(set) ==
    IF set = {} THEN <<>>
    ELSE LET m == CHOOSE x \in set : \A y \in set : x <= y
         IN  <<m>> \o Ascending(set \ {m})

\* the compressed S of a set of strong couplings, columns ascending in a row
RowsOf(edges) == [v \in V |-> Ascending({j \in V : <<v, j>> \in edges})]

\* fasp_icsr_trans: row j of ST lists the rows of S that hold j, ascending
RECURSIVE TransRow(_, _)
TransRow(j, r) ==
    IF r >= NumV THEN <<>>
    ELSE (IF \E k \in DOMAIN S[r] : S[r][k] = j THEN <<r>> ELSE <<>>)
         \o TransRow(j, r + 1)

ST == [j \in V |-> TransRow(j, 0)]

(***************************************************************************)
(* The bucket queue of linklist.inl: one list per measure, the lists in    *)
(* descending order of measure, a new index appended to its list's tail.   *)
(* Held as the sequence of <<measure, index>> in order of insertion.       *)
(***************************************************************************)
enter_list(q, measure, index) == Append(q, <<measure, index>>)

remove_node(q, measure, index) ==
    SelectSeq(q, LAMBDA e : e # <<measure, index>>)

QMax(q) == CHOOSE m \in {q[k][1] : k \in DOMAIN q} :
               \A k \in DOMAIN q : q[k][1] <= m

\* the head taken from the tail of the first list
LoL_head_Last(q) ==
    LET last == CHOOSE k \in DOMAIN q :
                    /\ q[k][1] = QMax(q)
                    /\ \A h \in DOMAIN q : q[h][1] = QMax(q) => h <= k
    IN  q[last][2]

\* LoL_head->head
LoL_head(q) ==
    LET first == CHOOSE k \in DOMAIN q :
                    /\ q[k][1] = QMax(q)
                    /\ \A h \in DOMAIN q : q[h][1] = QMax(q) => k <= h
    IN  q[first][2]

Queued(q) == {q[k][2] : k \in DOMAIN q}

\* num_left is an unsigned INT.  It is held by a representative modulo 2^32:
\* a negative n stands for 2^32 + n, so --n is n - 1 and n > 0 is n # 0.
Dec(n) == n - 1
Positive(n) == n # 0

(***************************************************************************)
(* form_coarse_level, phase one.  The working state is the record          *)
(* [vec, lambda, lists, num_left, col].                                    *)
(***************************************************************************)
\* InitLambda with isolation decided from the row of S
InitLambda_ByStrength ==
    LET v0 == [k \in V |-> IF Len(S[k]) = 0 THEN ISPT ELSE UNPT]
    IN  [vec      |-> v0,
         lambda   |-> [k \in V |-> IF Len(S[k]) = 0 THEN 0 ELSE Len(ST[k])],
         lists    |-> <<>>,
         num_left |-> Cardinality({k \in V : v0[k] = UNPT}),
         col      |-> 0]

\* 1. and 2.: lambda from the transpose, isolated rows filtered out
InitLambda ==
    LET v0 == [k \in V |-> IF nnzRow[k] <= 1 THEN ISPT ELSE UNPT]
    IN  [vec      |-> v0,
         lambda   |-> [k \in V |-> IF nnzRow[k] <= 1 THEN 0 ELSE Len(ST[k])],
         lists    |-> <<>>,
         num_left |-> Cardinality({k \in V : v0[k] = UNPT}),
         col      |-> 0]

\* 3., the neighbours of a vertex of measure zero
RECURSIVE Step3Nbrs(_, _, _)
Step3Nbrs(st, r, k) ==
    IF k > Len(S[r]) THEN st
    ELSE LET j == S[r][k] IN
         IF st.vec[j] # ISPT
         THEN IF j < r
              THEN LET new_meas == st.lambda[j]
                       q1 == IF new_meas > 0
                             THEN remove_node(st.lists, new_meas, j)
                             ELSE st.lists
                   IN  Step3Nbrs([st EXCEPT
                                    !.lambda[j] = new_meas + 1,
                                    !.lists = enter_list(q1, new_meas + 1, j)],
                                 r, k + 1)
              ELSE Step3Nbrs([st EXCEPT !.lambda[j] = @ + 1], r, k + 1)
         ELSE Step3Nbrs(st, r, k + 1)

\* Step3Vertex with the assignment vec[i]=FGPT left out
Step3Vertex_NotLabelled(st, r) ==
    IF st.vec[r] = ISPT THEN st
    ELSE IF st.lambda[r] > 0
         THEN [st EXCEPT !.lists = enter_list(@, st.lambda[r], r)]
         ELSE LET s1 == Step3Nbrs(st, r, 1)
              IN  [s1 EXCEPT !.num_left = Dec(@)]

\* 3., one vertex
Step3Vertex(st, r) ==
    IF st.vec[r] = ISPT THEN st
    ELSE IF st.lambda[r] > 0
         THEN [st EXCEPT !.lists = enter_list(@, st.lambda[r], r)]
         ELSE LET s1 == Step3Nbrs([st EXCEPT !.vec[r] = FGPT], r, 1)
              IN  [s1 EXCEPT !.num_left = Dec(@)]

RECURSIVE Step3(_, _)
Step3(st, r) ==
    IF r >= NumV THEN st ELSE Step3(Step3Vertex(st, r), r + 1)

\* RaiseNbrs with the measure raised but the vertex left in its old list
RECURSIVE RaiseNbrs_NotMoved(_, _, _)
RaiseNbrs_NotMoved(st, j, l) ==
    IF l > Len(S[j]) THEN st
    ELSE LET k == S[j][l] IN
         IF st.vec[k] = UNPT
         THEN RaiseNbrs_NotMoved([st EXCEPT !.lambda[k] = @ + 1], j, l + 1)
         ELSE RaiseNbrs_NotMoved(st, j, l + 1)

\* the measure of the undecided neighbours of a vertex that became fine
RECURSIVE RaiseNbrs(_, _, _)
RaiseNbrs(st, j, l) ==
    IF l > Len(S[j]) THEN st
    ELSE LET k == S[j][l] IN
         IF st.vec[k] = UNPT
         THEN LET q1 == remove_node(st.lists, st.lambda[k], k)
                  new_meas == st.lambda[k] + 1
              IN  RaiseNbrs([st EXCEPT !.lambda[k] = new_meas,
                                       !.lists = enter_list(q1, new_meas, k)],
                            j, l + 1)
         ELSE RaiseNbrs(st, j, l + 1)

\* 4., the vertices that depend on maxnode become fine
RECURSIVE FineDependents(_, _, _)
FineDependents(st, maxnode, p) ==
    IF p > Len(ST[maxnode]) THEN st
    ELSE LET j == ST[maxnode][p] IN
         IF st.vec[j] = UNPT
         THEN LET s1 == [st EXCEPT
                           !.vec[j] = FGPT,
                           !.lists = remove_node(@, st.lambda[j], j),
                           !.num_left = Dec(@)]
              IN  FineDependents(RaiseNbrs(s1, j, 1), maxnode, p + 1)
         ELSE FineDependents(st, maxnode, p + 1)

\* 4., the vertices maxnode depends on lose one unit of measure
RECURSIVE LowerInfluences(_, _, _)
LowerInfluences(st, maxnode, p) ==
    IF p > Len(S[maxnode]) THEN st
    ELSE LET j == S[maxnode][p] IN
         IF st.vec[j] = UNPT
         THEN LET measure == st.lambda[j] - 1
                  q1 == remove_node(st.lists, st.lambda[j], j)
              IN  IF measure > 0
                  THEN LowerInfluences(
                           [st EXCEPT !.lambda[j] = measure,
                                      !.lists = enter_list(q1, measure, j)],
                           maxnode, p + 1)
                  ELSE LowerInfluences(
                           RaiseNbrs([st EXCEPT !.lambda[j] = measure,
                                                !.lists = q1,
                                                !.vec[j] = FGPT,
                                                !.num_left = Dec(@)], j, 1),
                           maxnode, p + 1)
         ELSE LowerInfluences(st, maxnode, p + 1)

\* 4., one turn of the main loop
MainLoopBody(st) ==
    LET maxnode   == LoL_head(st.lists)
        maxlambda == st.lambda[maxnode]
        s1 == [st EXCEPT !.vec[maxnode] = CGPT,
                         !.lambda[maxnode] = 0,
                         !.num_left = Dec(@),
                         !.lists = remove_node(@, maxlambda, maxnode),
                         !.col = @ + 1]
    IN  LowerInfluences(FineDependents(s1, maxnode, 1), maxnode, 1)

Work == [vec |-> vec, lambda |-> lambda, lists |-> lists,
         num_left |-> num_left, col |-> col]

SetWork(st) ==
    /\ vec' = st.vec
    /\ lambda' = st.lambda
    /\ lists' = st.lists
    /\ num_left' = st.num_left
    /\ col' = st.col

(***************************************************************************)
(* form_coarse_level, phase two.                                           *)
(***************************************************************************)
\* a | b on INT, for b >= 0 and a >= -1
RECURSIVE BitOr(_, _)
BitOr(a, b) ==
    IF a = -1 \/ b = -1 THEN -1
    ELSE IF a = 0 THEN b
    ELSE IF b = 0 THEN a
    ELSE (IF a % 2 = 1 \/ b % 2 = 1 THEN 1 ELSE 0)
         + 2 * BitOr(a \div 2, b \div 2)

\* graph_array after the coarse neighbours of r are marked with r
MarkCoarse(ga, r) ==
    [j \in V |-> IF (\E k \in DOMAIN S[r] : S[r][k] = j) /\ vec[j] = CGPT
                 THEN r ELSE ga[j]]

\* set_empty for the fine neighbour j of r
SetEmpty(ga, r, j) == \A k \in DOMAIN S[j] : ga[S[j][k]] # r

\* the positions of row r whose fine neighbour shares no coarse point with r
Failing(ga, r) ==
    {k \in DOMAIN S[r] : vec[S[r][k]] = FGPT /\ SetEmpty(ga, r, S[r][k])}

FirstOf(ks) == CHOOSE k \in ks : \A h \in ks : k <= h

\* no hierarchy has been built
NoHierarchy ==
    /\ num_levels = 0
    /\ nnz = <<>>
    /\ mgl_cycle_type = <<>>

\* no cycle is running
NoCycle ==
    /\ cycle_type = V_CYCLE
    /\ stack = <<>>
    /\ trace = <<>>
    /\ differs = <<>>

\* no setup is running
NoSetup ==
    /\ amg_setup = "none"
    /\ param = <<>>
    /\ consts = <<>>
    /\ rows = <<>>
    /\ level = 0
    /\ max_levels = 0
    /\ status = "SUCCESS"
    /\ setup_pc = "idle"
    /\ stop = "none"
    /\ singular = FALSE
    /\ iterations = 0

\* the splitter is not running
NoSplitter ==
    /\ S = <<>>
    /\ nnzRow = <<>>
    /\ interp_type = "INTERP_DIR"
    /\ vec = <<>>
    /\ lambda = <<>>
    /\ lists = <<>>
    /\ num_left = 0
    /\ col = 0
    /\ pc = "idle"
    /\ i = 0
    /\ ci_tilde = -1
    /\ ci_tilde_mark = -1
    /\ C_i_nonempty = 0
    /\ graph_array = <<>>

\* generate_S is not running
NoStrength ==
    /\ strong_threshold = <<1, 4>>
    /\ max_row_sum = <<9, 10>>
    /\ gs_i = 0
    /\ gs_pc = "idle"
    /\ A_row = <<>>
    /\ S_row = <<>>

\* form_coarse_level_ag is not running
NoAggressive ==
    /\ ag_pc = "idle"
    /\ Sh = <<>>
    /\ cp_index = <<>>
    /\ ag_lambda = <<>>
    /\ ag_lists = <<>>
    /\ ag_num_left = 0
    /\ ag_col = 0
    /\ omp = <<>>
    /\ chunk = <<>>
    /\ sub_col = <<>>
    /\ vec_phase3 = <<>>

\* the interpolation is not running
NoInterp ==
    /\ vertices = <<>>
    /\ ip_i = 0
    /\ S_i = <<>>
    /\ weights = <<>>
    /\ epsilon_tr = <<1, 5>>
    /\ P_col = 0
    /\ P_i = <<>>
    /\ ip_pc = "idle"

\* no coarse matrix is being formed
NoGalerkin ==
    /\ mgl_A = <<>>
    /\ mgl_P = <<>>
    /\ mgl_R = <<>>
    /\ mgl_A1 = <<>>
    /\ rap_pc = "idle"

\* no matrix is being sorted
NoSort ==
    /\ sort_in = <<>>
    /\ sort_A = <<>>
    /\ sort_pc = "idle"

NoLater == NoInterp /\ NoGalerkin /\ NoSort

NoNew ==
    /\ NoStrength
    /\ NoAggressive
    /\ NoLater

(***************************************************************************)
(* The steps of form_coarse_level.                                         *)
(***************************************************************************)
CFStart ==
    \* fasp_amg_coarsening_rs calls the splitter only when S->nnz is not 0
    /\ \E edges \in {e \in SUBSET Pairs : Cardinality(e) <= MaxEdges} :
           /\ edges # {}
           /\ S = RowsOf(edges)
    \* every row stores its diagonal and its strong couplings; a row without
    \* strong couplings holds a weak coupling or none
    /\ \E weak \in [V -> {0, 1}] :
           /\ \A v \in V : S[v] # <<>> => weak[v] = 0
           /\ nnzRow = [v \in V |-> 1 + Len(S[v]) + weak[v]]
    /\ interp_type \in {"INTERP_DIR", "INTERP_STD"}
    /\ vec = [v \in V |-> UNPT]
    /\ lambda = [v \in V |-> 0]
    /\ lists = <<>>
    /\ num_left = 0
    /\ col = 0
    /\ pc = "start"
    /\ i = 0
    /\ ci_tilde = -1
    /\ ci_tilde_mark = -1
    /\ C_i_nonempty = 0
    /\ graph_array = [v \in V |-> 0]

CFInit ==
    /\ CFStart
    /\ NoHierarchy
    /\ NoCycle
    /\ NoSetup
    /\ NoNew

\* phase one, steps 1 to 3
Initialize ==
    /\ pc = "start"
    /\ SetWork(Step3(InitLambda, 0))
    /\ pc' = "main"
    /\ UNCHANGED <<S, nnzRow, interp_type, i, ci_tilde, ci_tilde_mark,
                   C_i_nonempty, graph_array>>
    /\ UNCHANGED <<hVars, cyVars, suVars, newVars>>

\* phase one, one turn of while (num_left>0)
MainLoop ==
    /\ pc = "main"
    /\ Positive(num_left)
    /\ IF lists = <<>>
       THEN /\ pc' = "crash"      \* LoL_head is NULL and is dereferenced
            /\ UNCHANGED <<vec, lambda, lists, num_left, col>>
       ELSE /\ SetWork(MainLoopBody(Work))
            /\ pc' = "main"
    /\ UNCHANGED <<S, nnzRow, interp_type, i, ci_tilde, ci_tilde_mark,
                   C_i_nonempty, graph_array>>
    /\ UNCHANGED <<hVars, cyVars, suVars, newVars>>

\* MainLoopExit with the test of interp_type inverted
MainLoopExit_Inverted ==
    /\ pc = "main"
    /\ ~Positive(num_left)
    /\ IF interp_type = "INTERP_STD"
       THEN /\ pc' = "phase2"
            /\ graph_array' = [v \in V |-> -1]
       ELSE /\ pc' = "done"
            /\ UNCHANGED graph_array
    /\ i' = 0
    /\ UNCHANGED <<S, nnzRow, interp_type, vec, lambda, lists, num_left, col,
                   ci_tilde, ci_tilde_mark, C_i_nonempty>>
    /\ UNCHANGED <<hVars, cyVars, suVars, newVars>>

\* the main loop is left; with standard interpolation there is no phase two
MainLoopExit ==
    /\ pc = "main"
    /\ ~Positive(num_left)
    /\ IF interp_type # "INTERP_STD"
       THEN /\ pc' = "phase2"
            /\ graph_array' = [v \in V |-> -1]
       ELSE /\ pc' = "done"
            /\ UNCHANGED graph_array
    /\ i' = 0
    /\ UNCHANGED <<S, nnzRow, interp_type, vec, lambda, lists, num_left, col,
                   ci_tilde, ci_tilde_mark, C_i_nonempty>>
    /\ UNCHANGED <<hVars, cyVars, suVars, newVars>>

\* the turn of the loop without C_i_nonempty = 1 at the tentative promotion
PhaseTwo_FlagNotSet ==
    /\ pc = "phase2"
    /\ i < NumV
    /\ LET mark == BitOr(ci_tilde_mark, i)
           ct   == IF mark # 0 THEN -1 ELSE ci_tilde
           ga   == MarkCoarse(graph_array, i)
       IN  IF vec[i] # FGPT
           THEN /\ ci_tilde_mark' = mark
                /\ ci_tilde' = ct
                /\ i' = i + 1
                /\ UNCHANGED <<vec, col, C_i_nonempty, graph_array>>
           ELSE /\ graph_array' = ga
                /\ IF Failing(ga, i) = {}
                   THEN /\ ci_tilde_mark' = mark
                        /\ ci_tilde' = ct
                        /\ i' = i + 1
                        /\ UNCHANGED <<vec, col, C_i_nonempty>>
                   ELSE LET j == S[i][FirstOf(Failing(ga, i))] IN
                        IF C_i_nonempty # 0
                        THEN /\ vec' = IF ct > -1
                                       THEN [vec EXCEPT ![i] = CGPT, ![ct] = FGPT]
                                       ELSE [vec EXCEPT ![i] = CGPT]
                             /\ col' = IF ct > -1 THEN col ELSE col + 1
                             /\ ci_tilde' = -1
                             /\ ci_tilde_mark' = mark
                             /\ C_i_nonempty' = 0
                             /\ i' = i + 1
                        ELSE /\ ci_tilde' = j
                             /\ ci_tilde_mark' = i
                             /\ vec' = [vec EXCEPT ![j] = CGPT]
                             /\ col' = col + 1
                             /\ C_i_nonempty' = 0
                             /\ i' = i
    /\ pc' = pc
    /\ UNCHANGED <<S, nnzRow, interp_type, lambda, lists, num_left>>
    /\ UNCHANGED <<hVars, cyVars, suVars, newVars>>

\* phase two, one turn of for (i=0; i < row; ++i)
PhaseTwo ==
    /\ pc = "phase2"
    /\ i < NumV
    /\ LET mark == BitOr(ci_tilde_mark, i)
           ct   == IF mark # 0 THEN -1 ELSE ci_tilde
           ga   == MarkCoarse(graph_array, i)
       IN  IF vec[i] # FGPT
           THEN /\ ci_tilde_mark' = mark
                /\ ci_tilde' = ct
                /\ i' = i + 1
                /\ UNCHANGED <<vec, col, C_i_nonempty, graph_array>>
           ELSE /\ graph_array' = ga
                /\ IF Failing(ga, i) = {}
                   THEN /\ ci_tilde_mark' = mark
                        /\ ci_tilde' = ct
                        /\ i' = i + 1
                        /\ UNCHANGED <<vec, col, C_i_nonempty>>
                   ELSE LET j == S[i][FirstOf(Failing(ga, i))] IN
                        IF C_i_nonempty # 0
                        THEN /\ vec' = IF ct > -1
                                       THEN [vec EXCEPT ![i] = CGPT, ![ct] = FGPT]
                                       ELSE [vec EXCEPT ![i] = CGPT]
                             /\ col' = IF ct > -1 THEN col ELSE col + 1
                             /\ ci_tilde' = -1
                             /\ ci_tilde_mark' = mark
                             /\ C_i_nonempty' = 0
                             /\ i' = i + 1
                        ELSE /\ ci_tilde' = j
                             /\ ci_tilde_mark' = i
                             /\ vec' = [vec EXCEPT ![j] = CGPT]
                             /\ col' = col + 1
                             /\ C_i_nonempty' = 1
                             /\ i' = i
    /\ pc' = pc
    /\ UNCHANGED <<S, nnzRow, interp_type, lambda, lists, num_left>>
    /\ UNCHANGED <<hVars, cyVars, suVars, newVars>>

\* return col
Return ==
    /\ pc = "phase2"
    /\ i >= NumV
    /\ pc' = "done"
    /\ UNCHANGED <<S, nnzRow, interp_type, vec, lambda, lists, num_left, col,
                   i, ci_tilde, ci_tilde_mark, C_i_nonempty, graph_array>>
    /\ UNCHANGED <<hVars, cyVars, suVars, newVars>>

CFNext == Initialize \/ MainLoop \/ MainLoopExit \/ PhaseTwo \/ Return

SpecCF == CFInit /\ [][CFNext]_vars

(***************************************************************************)
(* Properties of the splitter.                                             *)
(***************************************************************************)
Undecided == {v \in V : vec[v] = UNPT}
Strong(v) == {S[v][k] : k \in DOMAIN S[v]}

\* the main loop of phase one has been left
AfterMainLoop ==
    \/ pc = "main" /\ ~Positive(num_left)
    \/ pc \in {"phase2", "done"}

\* C1: when the main loop of the first pass exits no vertex is Undecided:
\* every vertex is Coarse, Fine or Isolated.
C1_NoUndecidedAtExit ==
    AfterMainLoop => \A v \in V : vec[v] \in {CGPT, FGPT, ISPT}

C1_Witness ==
    /\ pc = "main" /\ ~Positive(num_left)
    /\ col >= 2
    /\ \E v \in V : vec[v] = FGPT
    /\ \E v \in V : vec[v] = ISPT

\* C2: at the head of every turn of the main loop the vertex about to be
\* extracted from the bucket queue is Undecided and its lambda is the largest
\* lambda of all Undecided vertices.
C2_ExtractsMaxUndecided ==
    (pc = "main" /\ Positive(num_left)) =>
        /\ lists # <<>>
        /\ vec[LoL_head(lists)] = UNPT
        /\ \A u \in Undecided : lambda[u] <= lambda[LoL_head(lists)]

C2_Witness ==
    /\ pc = "main" /\ Positive(num_left)
    /\ col >= 1
    /\ lists # <<>>
    /\ \E u \in Undecided : lambda[u] < lambda[LoL_head(lists)]
    /\ \E u \in Undecided : u < LoL_head(lists)

\* the queued Undecided vertices of the largest lambda
Tied ==
    {u \in Undecided \cap Queued(lists) :
        \A w \in Undecided : lambda[w] <= lambda[u]}

\* the place of vertex v in the order in which the queue was entered
Entered(q, v) == CHOOSE k \in DOMAIN q : q[k][2] = v

\* the vertex that a turn of the main loop labels Coarse
Extracted(v) == vec[v] = UNPT /\ vec'[v] = CGPT

InMainLoop == pc = "main" /\ pc' = "main" /\ lists # <<>>

\* C17 as stated: the vertex extracted by a turn of the main loop is the one
\* of lowest index among the Undecided vertices of the largest lambda, also
\* after vertices have been re-bucketed.
C17_ExtractsLowestIndex ==
    [][InMainLoop =>
          \A v \in V : Extracted(v) => \A u \in Tied : v <= u]_vars

\* C17: the vertex extracted by a turn of the main loop is, among the
\* Undecided vertices of the largest lambda, the one that entered the bucket
\* of that lambda first.
C17_ExtractsFirstEntered ==
    [][InMainLoop =>
          \A v \in V : Extracted(v) =>
              /\ v \in Tied
              /\ \A u \in Tied : Entered(lists, v) <= Entered(lists, u)]_vars

\* a re-bucketed vertex of lower index is queued behind the head of its bucket
C17_Witness ==
    /\ pc = "main" /\ col >= 1
    /\ lists # <<>>
    /\ \E u \in Tied : u < LoL_head(lists)
    /\ vec[LoL_head(lists)] = UNPT

\* a Coarse vertex within two hops of f, the couplings taken in either direction
Linked(a, b) == b \in Strong(a) \/ a \in Strong(b)
CoarseNearby(f) ==
    \E c \in V : /\ vec[c] = CGPT
                  /\ \/ Linked(f, c)
                     \/ \E m \in V : Linked(f, m) /\ Linked(m, c)

\* a Coarse vertex among the strong couplings of f, one hop along row f of S
CoarseCoupled(f) == \E c \in Strong(f) : vec[c] = CGPT

\* C3 as stated: with a non-standard interpolation type every Fine vertex has
\* a Coarse vertex within two hops of S when the splitter returns.
C3_Coverage ==
    (pc = "done" /\ interp_type # "INTERP_STD") =>
        \A f \in V : vec[f] = FGPT => CoarseNearby(f)

\* C3 amended: with a non-standard interpolation type every Fine vertex that
\* has a strong coupling to a vertex that is not Isolated has a Coarse vertex
\* among its own strong couplings, one hop along S and so within two, when the
\* splitter returns.
C3_CoverageOfCoupled ==
    (pc = "done" /\ interp_type # "INTERP_STD") =>
        \A f \in V :
            (vec[f] = FGPT /\ \E m \in Strong(f) : vec[m] # ISPT)
                => CoarseCoupled(f)

\* the second pass promoted a neighbour of a Fine vertex that stayed Fine
C3_Witness ==
    /\ pc = "done" /\ interp_type # "INTERP_STD"
    /\ ci_tilde_mark >= 0
    /\ vec[ci_tilde_mark] = FGPT
    /\ \E m \in Strong(ci_tilde_mark) : vec[m] # ISPT
    /\ CoarseCoupled(ci_tilde_mark)

(***************************************************************************)
(* The hierarchy handed to the cycle: the tail of                          *)
(* amg_setup_unsmoothP_unsmoothR sets the cycle type of every level.       *)
(***************************************************************************)
NnzValues == {1, 2, 4}

RECURSIVE Pow(_, _)
Pow(b, e) == IF e = 0 THEN 1 ELSE b * Pow(b, e - 1)

\* (INT)(pow(xsi,lvl)/(eta*fracratio*icum)) with xsi = 0.6, cplxmax = 3.0, so
\* eta = 0.6/(0.4*2) = 3/4, and fracratio = nnz[lvl]/nnz[0]
RawCycleType(nz, lvl, icum) ==
    (4 * Pow(6, lvl) * nz[0]) \div (3 * Pow(10, lvl) * nz[lvl] * icum)

Clamp(c) == IF c > 2 THEN 2 ELSE IF c < 1 THEN 1 ELSE c

\* the loop over the inner levels 1 .. max_levels-2
RECURSIVE InnerCycleTypes(_, _, _, _, _)
InnerCycleTypes(ct, nz, n, lvl, icum) ==
    IF lvl >= n - 1 THEN ct
    ELSE LET c == Clamp(RawCycleType(nz, lvl, icum))
         IN  InnerCycleTypes([ct EXCEPT ![lvl] = c], nz, n, lvl + 1, icum * c)

\* mgl[lvl].cycle_type of a hierarchy of n levels built with param->cycle_type c
LevelCycleTypes(nz, n, c) ==
    LET c0 == [l \in 0 .. (n - 1) |-> IF l >= 1 THEN c ELSE 0]
        c1 == [c0 EXCEPT ![0] = 1]
        c2 == [c1 EXCEPT ![n - 1] = 0]
    IN  InnerCycleTypes(c2, nz, n, 1, 1)

(***************************************************************************)
(* fasp_solver_mgrecur.  A call is a frame [level, pc, i]; the frames of   *)
(* the active calls form the stack.                                        *)
(***************************************************************************)
Top == stack[Len(stack)]

SetTop(f) == [stack EXCEPT ![Len(stack)] = f]

Pop == SubSeq(stack, 1, Len(stack) - 1)

Did(op) == Append(trace, [op |-> op, level |-> Top.level])

\* the test of the else branch too early by one level
Coarsest_Early(lev) == ~(lev < num_levels - 2)

\* the else branch of if (level < mgl[level].num_levels-1)
Coarsest(lev) == ~(lev < num_levels - 1)

\* the vectors of the hierarchy at the call of the cycle: the caller has set
\* mgl[0].x to zero and mgl[0].b to the right-hand side; every other vector
\* holds what the setup (leftover FALSE) or an earlier cycle (leftover TRUE)
\* left in it.  TRUE marks a vector whose contents a leftover can reach.
WorkVectors(nl, leftover) ==
    [l \in 0 .. (nl - 1) |->
        [x |-> leftover /\ l > 0, b |-> leftover /\ l > 0, w |-> leftover]]

\* fasp_dcsr_presmoothing, fasp_dcsr_postsmoothing, fasp_smoother_dcsr_ilu and
\* fasp_coarse_itsolver (A0, b0, e0): e0 is rewritten from b0 and e0
Smoothed(d, l) == [d EXCEPT ![l].x = d[l].x \/ d[l].b]

\* fasp_array_cp(m0,b0->val,r); fasp_blas_dcsr_aAxpy(-1.0,A0,e0->val,r)
Residualed(d, l) == [d EXCEPT ![l].w = d[l].b \/ d[l].x]

\* the restriction without fasp_dvec_set(m1,e1,0.0)
Restricted_KeepGuess(d, l) == [d EXCEPT ![l + 1].b = d[l].w]

\* fasp_blas_dcsr_mxv(&mgl[level].R, r, b1->val); fasp_dvec_set(m1,e1,0.0)
Restricted(d, l) == [d EXCEPT ![l + 1].b = d[l].w, ![l + 1].x = FALSE]

\* fasp_blas_dcsr_aAxpy(1.0, &mgl[level].P, e1->val, e0->val)
Prolonged(d, l) == [d EXCEPT ![l].x = d[l].x \/ d[l + 1].x]

CycleInit ==
    /\ num_levels \in 1 .. MaxLevels
    /\ nnz \in [0 .. (num_levels - 1) -> NnzValues]
    /\ cycle_type \in {V_CYCLE, W_CYCLE, AMLI_CYCLE}
    /\ mgl_cycle_type = LevelCycleTypes(nnz, num_levels, cycle_type)
    /\ stack = <<[level |-> 0, pc |-> "enter", i |-> 0]>>
    /\ trace = <<>>
    /\ \E leftover \in BOOLEAN : differs = WorkVectors(num_levels, leftover)
    /\ NoSplitter
    /\ NoSetup
    /\ NoNew

PreSmooth ==
    /\ stack # <<>> /\ Top.pc = "enter"
    /\ ~Coarsest(Top.level)
    /\ trace' = Did("PreSmooth")
    /\ differs' = Smoothed(differs, Top.level)
    /\ stack' = SetTop([Top EXCEPT !.pc = "residual"])
    /\ UNCHANGED <<cfVars, hVars, cycle_type, suVars, newVars>>

Residual ==
    /\ stack # <<>> /\ Top.pc = "residual"
    /\ trace' = Did("Residual")
    /\ differs' = Residualed(differs, Top.level)
    /\ stack' = SetTop([Top EXCEPT !.pc = "restrict"])
    /\ UNCHANGED <<cfVars, hVars, cycle_type, suVars, newVars>>

Restrict ==
    /\ stack # <<>> /\ Top.pc = "restrict"
    /\ trace' = Did("Restrict")
    /\ differs' = Restricted(differs, Top.level)
    /\ stack' = SetTop([Top EXCEPT !.pc = "recurse", !.i = 0])
    /\ UNCHANGED <<cfVars, hVars, cycle_type, suVars, newVars>>

\* one turn of for (i=0; i<cycle_type; ++i)
Recurse ==
    /\ stack # <<>> /\ Top.pc = "recurse"
    /\ Top.i < cycle_type
    /\ stack' = Append(SetTop([Top EXCEPT !.i = @ + 1]),
                       [level |-> Top.level + 1, pc |-> "enter", i |-> 0])
    /\ UNCHANGED <<trace, differs>>
    /\ UNCHANGED <<cfVars, hVars, cycle_type, suVars, newVars>>

Prolong ==
    /\ stack # <<>> /\ Top.pc = "recurse"
    /\ ~(Top.i < cycle_type)
    /\ trace' = Did("Prolong")
    /\ differs' = Prolonged(differs, Top.level)
    /\ stack' = SetTop([Top EXCEPT !.pc = "post"])
    /\ UNCHANGED <<cfVars, hVars, cycle_type, suVars, newVars>>

PostSmooth ==
    /\ stack # <<>> /\ Top.pc = "post"
    /\ trace' = Did("PostSmooth")
    /\ differs' = Smoothed(differs, Top.level)
    /\ stack' = Pop
    /\ UNCHANGED <<cfVars, hVars, cycle_type, suVars, newVars>>

CoarseSolve ==
    /\ stack # <<>> /\ Top.pc = "enter"
    /\ Coarsest(Top.level)
    /\ trace' = Did("CoarseSolve")
    /\ differs' = Smoothed(differs, Top.level)
    /\ stack' = Pop
    /\ UNCHANGED <<cfVars, hVars, cycle_type, suVars, newVars>>

CycleNext ==
    \/ PreSmooth \/ Residual \/ Restrict \/ Recurse \/ Prolong
    \/ PostSmooth \/ CoarseSolve

SpecCycle == CycleInit /\ [][CycleNext]_vars

(***************************************************************************)
(* Properties of the cycle.                                                *)
(***************************************************************************)
\* the operations performed on level l, in order
At(l) == SelectSeq(trace, LAMBDA e : e.level = l)

NextOp(op) ==
    CASE op = "PreSmooth"  -> "Residual"
      [] op = "Residual"   -> "Restrict"
      [] op = "Restrict"   -> "Prolong"
      [] op = "Prolong"    -> "PostSmooth"
      [] op = "PostSmooth" -> "PreSmooth"
      [] OTHER             -> "none"

\* the last operation on level l before position n of the trace
LastBefore(l, n) ==
    LET before == {m \in 1 .. (n - 1) : trace[m].level = l}
    IN  IF before = {} THEN "none"
        ELSE trace[CHOOSE m \in before : \A h \in before : h <= m].op

\* C4: on a non-terminal level the operations follow the order PreSmooth,
\* residual, Restrict, Prolong, PostSmooth; everything done on level l+1 comes
\* after a Restrict of level l that no Prolong of level l has followed yet, a
\* Prolong comes directly after work of level l+1, and CoarseSolve is done on
\* the terminal level and nothing else is.
C4_VisitOrder ==
    /\ \A l \in 0 .. (num_levels - 2) :
           LET s == At(l) IN
           /\ s # <<>> => s[1].op = "PreSmooth"
           /\ \A k \in 1 .. (Len(s) - 1) : s[k + 1].op = NextOp(s[k].op)
    /\ \A n \in DOMAIN trace :
           /\ trace[n].level \in 0 .. (num_levels - 1)
           /\ trace[n].op = "CoarseSolve" <=> trace[n].level = num_levels - 1
           /\ trace[n].level > 0 =>
                  LastBefore(trace[n].level - 1, n) = "Restrict"
           /\ trace[n].op = "Prolong" =>
                  n > 1 /\ trace[n - 1].level = trace[n].level + 1

C4_Witness ==
    /\ stack = <<>>
    /\ num_levels = 3
    /\ cycle_type = W_CYCLE
    /\ Len(At(1)) = 10

\* C5 as stated: when the recursive visits of a call on level l are over, their
\* number is mgl[l].cycle_type, the setting of level l, and in an AMLI cycle it
\* is not the cycle-type code.
C5_OwnCycleType ==
    \A k \in DOMAIN stack :
        stack[k].pc = "post" =>
            /\ stack[k].i = mgl_cycle_type[stack[k].level]
            /\ cycle_type = AMLI_CYCLE => stack[k].i # AMLI_CYCLE

\* C14: when the cycle has returned, mgl[0].x is determined by the hierarchy,
\* the right-hand side and the zero initial guess: nothing that the setup or an
\* earlier cycle left in the vectors x, b, w of any level reaches it, so two
\* invocations with the same b and x set to zero give the same x.
C14_ResultIndependent == stack = <<>> => ~differs[0].x

C14_Witness ==
    /\ stack = <<>>
    /\ num_levels >= 2
    /\ cycle_type = W_CYCLE
    /\ differs[num_levels - 1].w
    /\ ~differs[0].x

(***************************************************************************)
(* The setup functions fasp_amg_setup_rs, fasp_amg_setup_rs_omp and        *)
(* amg_setup_unsmoothP_unsmoothR.  A matrix is held by its row count.      *)
(***************************************************************************)
Rows0 == {40, 60, 120}                  \* mgl[0].A.row
Counts == {0, 30, 55, 60, 100, 120}     \* numbers of coarse points, aggregates

CoarseningTypes == {"COARSE_RS", "COARSE_AC", "COARSE_CR", "unknown"}
InterpTypes == {"INTERP_REG", "INTERP_ENG_MIN", "INTERP_STD", "unknown"}

MAX(a, b) == IF a > b THEN a ELSE b

\* status < 0
Neg(st) == st # "SUCCESS"

\* the loop test one level too early
LoopGuard_Early(row, lv, ml, cdof) == row > MAX(cdof, 50) /\ lv < ml - 2

\* while ((mgl[level].A.row > MAX(param->coarse_dof,50)) && (level < max_levels-1))
LoopGuard(row, lv, ml, cdof) == row > MAX(cdof, 50) /\ lv < ml - 1

\* fasp_amg_coarsening_rs: the status returned and, on success, P->col.  The
\* splitter returns fewer coarse points than rows, and none at all when every
\* strong coupling leads to an Isolated vertex.
fasp_amg_coarsening_rs(ctype, row) ==
    IF ctype \notin {"COARSE_RS", "COARSE_AC", "COARSE_CR"}
    THEN {[status |-> "ERROR_AMG_COARSE_TYPE", col |-> 0]}
    ELSE {[status |-> "RUN_FAIL", col |-> 0]}             \* S->nnz == 0
         \cup {[status |-> "SUCCESS", col |-> c] : c \in {n \in Counts : n < row}}

\* the interpolation type after if (coarsening_type == 4)
EffectiveInterp(ctype, itype) ==
    IF ctype = "COARSE_AC" THEN "INTERP_STD" ELSE itype

\* invden: the result of fasp_smat_lu_decomp is not looked at
invden(singular_block) == "SUCCESS"

gentisquare_nomass(singular_block) == invden(singular_block)

\* interp_EM returns nothing; genintval drops the status of gentisquare_nomass
interp_EM(singular_block) ==
    LET dropped == gentisquare_nomass(singular_block) IN "SUCCESS"

\* fasp_amg_interp: "exit" when fasp_chkerr is reached, else the status
fasp_amg_interp(ctype, itype, singular_block) ==
    LET t == EffectiveInterp(ctype, itype) IN
    IF t = "INTERP_REG" THEN "SUCCESS"
    ELSE IF t = "INTERP_ENG_MIN"
         THEN LET done == interp_EM(singular_block) IN "SUCCESS"
         ELSE "exit"       \* case INTERP_STD has no break

\* fasp_amg_interp1
fasp_amg_interp1(ctype, itype, singular_block) ==
    LET t == EffectiveInterp(ctype, itype) IN
    IF t \in {"INTERP_REG", "INTERP_STD"} THEN "SUCCESS"
    ELSE IF t = "INTERP_ENG_MIN"
         THEN LET done == interp_EM(singular_block) IN "SUCCESS"
         ELSE "exit"

\* the blocks interp_EM may meet
Blocks(ctype, itype) ==
    IF EffectiveInterp(ctype, itype) = "INTERP_ENG_MIN"
    THEN BOOLEAN ELSE {FALSE}

\* the outcomes of fasp_ilu_dcsr_setup on a level
IluOutcomes(lv, ilu_levels) == IF lv < ilu_levels THEN BOOLEAN ELSE {TRUE}

\* aggregation_vmb, aggregation_pairwise: disjoint aggregates of the rows
Aggregation(row) ==
    {[status |-> "RUN_FAIL", num_aggs |-> 0]}
    \cup {[status |-> "SUCCESS", num_aggs |-> c] : c \in {n \in Counts : n <= row}}

SetupInit ==
    /\ amg_setup \in {"rs", "rs_omp", "ua"}
    /\ \E cd \in {10, 60}, ml \in 1 .. MaxLevels, ilu \in {0, 1},
          ct \in CoarseningTypes, it \in InterpTypes, al \in {0, 2},
          at \in {"VMB", "PAIRWISE"} :
           /\ amg_setup = "rs" \/ al = 0
           /\ amg_setup = "ua" \/ at = "PAIRWISE"
           /\ amg_setup # "ua" \/ (ct = "COARSE_RS" /\ it = "INTERP_REG")
           /\ param = [coarse_dof         |-> cd,
                       max_levels         |-> ml,
                       ILU_levels         |-> ilu,
                       coarsening_type    |-> ct,
                       interpolation_type |-> it,
                       \* fasp_amg_setup_rs: aggressive coarsening on one
                       \* level at least
                       aggressive_level   |->
                           IF amg_setup = "rs" /\ ct = "COARSE_AC" /\ al < 1
                           THEN 1 ELSE al,
                       aggregation_type   |-> at,
                       strong_coupled     |-> 0,   \* binary exponent
                       quality_bound      |-> 0]   \* binary exponent
           /\ max_levels = ml
    /\ \E mc \in {20, 40}, mr \in {2, 20} :
           /\ amg_setup = "ua" \/ (mc = 20 /\ mr = 20)
           /\ consts = [MIN_CDOF |-> mc, MAX_CRATE |-> mr]
    /\ cycle_type \in {V_CYCLE, W_CYCLE}
    /\ amg_setup = "ua" \/ cycle_type = V_CYCLE
    /\ \E r \in Rows0 : rows = <<r>>
    /\ level = 0
    /\ status = "SUCCESS"
    /\ setup_pc = "loop"
    /\ stop = "none"
    /\ singular = FALSE
    /\ iterations = 0
    /\ NoHierarchy
    /\ stack = <<>>
    /\ trace = <<>>
    /\ differs = <<>>
    /\ NoSplitter
    /\ NoNew

\* goto FINISHED
Finished(st, reason) ==
    /\ status' = st
    /\ setup_pc' = "returned"
    /\ stop' = reason
    /\ UNCHANGED <<rows, level, max_levels, hVars>>

\* exit(status) in fasp_chkerr
Exit(st, reason) ==
    /\ status' = st
    /\ setup_pc' = "exit"
    /\ stop' = reason
    /\ UNCHANGED <<rows, level, max_levels, hVars>>

\* mgl[level+1].A is formed, ++level
NextLevel(st, n) ==
    /\ rows' = Append(rows, n)
    /\ level' = level + 1
    /\ status' = st
    /\ UNCHANGED <<max_levels, setup_pc, stop, hVars>>

\* fasp_amg_setup_rs after the loop
RSReturn(st, reason) ==
    /\ num_levels' = level + 1
    /\ max_levels' = level + 1
    /\ status' = st
    /\ setup_pc' = "returned"
    /\ stop' = reason
    /\ UNCHANGED <<rows, level, nnz, mgl_cycle_type>>

\* fasp_amg_setup_rs, one turn of the main loop
RSLevel ==
    /\ amg_setup = "rs" /\ setup_pc = "loop"
    /\ LoopGuard(rows[level + 1], level, max_levels, param.coarse_dof)
    /\ iterations' = iterations + 1
    /\ \E ilu_ok \in IluOutcomes(level, param.ILU_levels) :
        IF ~ilu_ok
        THEN /\ Finished("ERROR_SOLVER_ILUSETUP", "ILU setup failed")
             /\ UNCHANGED <<param, singular>>
        ELSE
        LET ct1 == IF param.coarsening_type = "COARSE_AC"
                      /\ level >= param.aggressive_level
                   THEN "COARSE_RS" ELSE param.coarsening_type
        IN  \E out \in fasp_amg_coarsening_rs(ct1, rows[level + 1]) :
            IF Neg(out.status)
            THEN /\ param' = [param EXCEPT !.coarsening_type = ct1]
                 /\ RSReturn(out.status, "coarsening failed")
                 /\ UNCHANGED singular
            ELSE IF out.col <= 50
            THEN /\ param' = [param EXCEPT !.coarsening_type = ct1]
                 /\ RSReturn(out.status, "coarse level too small")
                 /\ UNCHANGED singular
            ELSE
            \* P.col * 1.5 > A.row
            LET ct2 == IF 3 * out.col > 2 * rows[level + 1]
                       THEN "COARSE_RS" ELSE ct1
            IN  \E blk \in Blocks(ct2, param.interpolation_type) :
                LET st == fasp_amg_interp(ct2, param.interpolation_type, blk)
                IN  /\ param' = [param EXCEPT !.coarsening_type = ct2]
                    /\ singular' = (singular \/ blk)
                    /\ IF st = "exit"
                       THEN Exit("ERROR_AMG_INTERP_TYPE", "interpolation type")
                       ELSE IF Neg(st)
                       THEN RSReturn(st, "interpolation failed")
                       ELSE NextLevel(st, out.col)
    /\ UNCHANGED <<amg_setup, consts>>
    /\ UNCHANGED <<cfVars, cyVars, newVars>>

\* fasp_amg_setup_rs, the loop test fails
RSLoopExit ==
    /\ amg_setup = "rs" /\ setup_pc = "loop"
    /\ ~LoopGuard(rows[level + 1], level, max_levels, param.coarse_dof)
    /\ RSReturn(status, "none")
    /\ UNCHANGED <<amg_setup, param, consts, singular, iterations>>
    /\ UNCHANGED <<cfVars, cyVars, newVars>>

\* fasp_amg_setup_rs_omp after the loop: status = SUCCESS
OMPReturn(reason) ==
    /\ num_levels' = level + 1
    /\ max_levels' = level + 1
    /\ status' = "SUCCESS"
    /\ setup_pc' = "returned"
    /\ stop' = reason
    /\ UNCHANGED <<rows, level, nnz, mgl_cycle_type>>

\* fasp_amg_setup_rs_omp, one turn of the main loop
OMPLevel ==
    /\ amg_setup = "rs_omp" /\ setup_pc = "loop"
    /\ LoopGuard(rows[level + 1], level, max_levels, param.coarse_dof)
    /\ iterations' = iterations + 1
    /\ \E ilu_ok \in IluOutcomes(level, param.ILU_levels) :
        IF ~ilu_ok
        THEN /\ Finished("ERROR_SOLVER_ILUSETUP", "ILU setup failed")
             /\ UNCHANGED singular
        ELSE
        \E out \in fasp_amg_coarsening_rs(param.coarsening_type,
                                          rows[level + 1]) :
            IF Neg(out.status)
            THEN /\ Finished(out.status, "coarsening failed")
                 /\ UNCHANGED singular
            ELSE IF out.col = 0
            THEN /\ OMPReturn("coarse level too small")
                 /\ UNCHANGED singular
            ELSE
            \E blk \in Blocks(param.coarsening_type,
                              param.interpolation_type) :
                LET st == fasp_amg_interp1(param.coarsening_type,
                                           param.interpolation_type, blk)
                IN  /\ singular' = (singular \/ blk)
                    /\ IF st = "exit"
                       THEN Exit("ERROR_AMG_INTERP_TYPE", "interpolation type")
                       ELSE IF Neg(st)
                       THEN Finished(st, "interpolation failed")
                       ELSE NextLevel(st, out.col)
    /\ UNCHANGED <<amg_setup, param, consts>>
    /\ UNCHANGED <<cfVars, cyVars, newVars>>

\* fasp_amg_setup_rs_omp, the loop test fails
OMPLoopExit ==
    /\ amg_setup = "rs_omp" /\ setup_pc = "loop"
    /\ ~LoopGuard(rows[level + 1], level, max_levels, param.coarse_dof)
    /\ OMPReturn("none")
    /\ UNCHANGED <<amg_setup, param, consts, singular, iterations>>
    /\ UNCHANGED <<cfVars, cyVars, newVars>>

\* amg_setup_unsmoothP_unsmoothR after the loop: the level count and the
\* cycle type of every level
UAReturn(st, reason) ==
    /\ num_levels' = level + 1
    /\ max_levels' = level + 1
    /\ \E nz \in [0 .. level -> NnzValues] :
           /\ nnz' = nz
           /\ mgl_cycle_type' = LevelCycleTypes(nz, level + 1, cycle_type)
    /\ status' = st
    /\ setup_pc' = "returned"
    /\ stop' = reason
    /\ UNCHANGED <<rows, level>>

\* the two tests taken in the other order
AdaptThreshold_RaiseFirst(sc, num_aggs, row) ==
    IF 5 * num_aggs < 4 * row THEN sc + 1
    ELSE IF 4 * num_aggs > row THEN sc - 1
    ELSE sc

\* Choose strength threshold adaptively
AdaptThreshold(sc, num_aggs, row) ==
    IF 4 * num_aggs > row THEN sc - 1
    ELSE IF 5 * num_aggs < 4 * row THEN sc + 1
    ELSE sc

\* amg_setup_unsmoothP_unsmoothR, one turn of the main loop
UALevel ==
    /\ amg_setup = "ua" /\ setup_pc = "loop"
    /\ LoopGuard(rows[level + 1], level, max_levels, param.coarse_dof)
    /\ iterations' = iterations + 1
    /\ \E ilu_ok \in IluOutcomes(level, param.ILU_levels),
          agg \in Aggregation(rows[level + 1]) :
        LET p1 == IF ilu_ok THEN param
                  ELSE [param EXCEPT !.ILU_levels = level]
            p2 == IF param.aggregation_type = "VMB"
                  THEN [p1 EXCEPT !.strong_coupled =
                            AdaptThreshold(@, agg.num_aggs, rows[level + 1])]
                  ELSE p1
        IN  IF Neg(agg.status)                                    \* Check 1
            THEN /\ param' = p2
                 /\ UAReturn("SUCCESS", "aggregation failed")
            ELSE IF agg.num_aggs < consts.MIN_CDOF                \* Check 2
            THEN /\ param' = p2
                 /\ UAReturn(agg.status, "coarse level too small")
            ELSE IF rows[level + 1] > agg.num_aggs * consts.MAX_CRATE
            THEN /\ param' = p2                                   \* Check 3
                 /\ UAReturn(agg.status, "coarsening too aggressive")
            ELSE \* Check 4 reads P of the level that is not built yet
                 /\ \E doubled \in {0, 1} :
                        param' = [p2 EXCEPT !.quality_bound = @ + doubled]
                 /\ NextLevel(agg.status, agg.num_aggs)
    /\ UNCHANGED <<amg_setup, consts, singular>>
    /\ UNCHANGED <<cfVars, cyVars, newVars>>

\* amg_setup_unsmoothP_unsmoothR, the loop test fails
UALoopExit ==
    /\ amg_setup = "ua" /\ setup_pc = "loop"
    /\ ~LoopGuard(rows[level + 1], level, max_levels, param.coarse_dof)
    /\ UAReturn(status, "none")
    /\ UNCHANGED <<amg_setup, param, consts, singular, iterations>>
    /\ UNCHANGED <<cfVars, cyVars, newVars>>

SetupNext ==
    \/ RSLevel \/ RSLoopExit \/ OMPLevel \/ OMPLoopExit
    \/ UALevel \/ UALoopExit

SpecSetup == SetupInit /\ [][SetupNext]_vars

(***************************************************************************)
(* Properties of the setup.                                                *)
(***************************************************************************)
NonFatalStops == {"coarsening failed", "aggregation failed",
                  "coarse level too small", "coarsening too aggressive"}

\* setup has returned a hierarchy
Returned == setup_pc = "returned" /\ num_levels > 0

\* C6 as stated: in a hierarchy returned by setup the row count of level i+1
\* is strictly smaller than the row count of level i.
C6_StrictlyDecreasing ==
    Returned => \A l \in 1 .. (num_levels - 1) : rows[l + 1] < rows[l]

\* C7 as stated: after setup returns a hierarchy the coarsest level has fewer
\* rows than the configured minimum coarse size or the number of levels is
\* the configured maximum.
C7_SmallOrFull ==
    Returned =>
        \/ rows[num_levels] < param.coarse_dof
        \/ num_levels = param.max_levels

\* C7 amended: after setup returns a hierarchy the coarsest level has at most
\* max(configured minimum coarse size, 50) rows, or the number of levels is
\* the configured maximum, or a non-fatal stop condition ended construction
\* at the coarsest level.
C7_SmallOrFullOrStopped ==
    Returned =>
        \/ rows[num_levels] <= MAX(param.coarse_dof, 50)
        \/ num_levels = param.max_levels
        \/ stop \in NonFatalStops

C7_Witness ==
    /\ Returned
    /\ stop = "none"
    /\ num_levels = 2
    /\ param.max_levels > 2
    /\ rows[num_levels] > param.coarse_dof

\* C8 as stated: when a non-fatal stop condition ends construction on level l,
\* level l is the terminal level of the hierarchy and setup returns success.
C8_StopReturnsSuccess ==
    (setup_pc = "returned" /\ stop \in NonFatalStops) =>
        /\ num_levels = level + 1
        /\ status = "SUCCESS"

UnrecognizedType ==
    /\ amg_setup \in {"rs", "rs_omp"}
    /\ \/ param.coarsening_type = "unknown"
       \/ param.interpolation_type = "unknown"

\* C9 as stated: with an unrecognized coarsening or interpolation type setup
\* ends with a fatal error before any turn of the level loop has started.
C9_TypeErrorAtEntry ==
    (setup_pc \in {"returned", "exit"} /\ UnrecognizedType) =>
        /\ iterations = 0
        /\ setup_pc = "exit" \/ Neg(status)

\* C10 as stated: once a singular block has been inverted by the
\* energy-minimization interpolation setup does not go on: it has aborted or
\* has returned an error status.
C10_SingularAborts ==
    singular =>
        \/ setup_pc = "exit"
        \/ setup_pc = "returned" /\ Neg(status)

(***************************************************************************)
(* generate_S, base/src/coarsening_rs.c: the strength graph S of A.  The   *)
(* loop treats the rows of A one after the other and no row depends on     *)
(* another, so the model follows one turn of the loop, for a row index and *)
(* a row of A drawn at the start.  The entries of A are integers and the   *)
(* two real parameters are fractions, so that every comparison of the code *)
(* is decided exactly.                                                     *)
(***************************************************************************)
\* the values a stored entry of A takes here; a stored entry may be zero
EntryValues == {-4, -2, -1, 0, 4}

\* the rows of A: the stored columns and their values
RowInputs == UNION {[cols -> EntryValues] : cols \in SUBSET V}

\* param->strong_threshold, in (0,1)
Thresholds == {<<1, 4>>, <<1, 2>>}

\* param->max_row_sum; fasp_param_amg_init sets 0.9
RowSumCaps == {<<1, 2>>, <<9, 10>>, <<1, 1>>, <<2, 1>>}

MIN(a, b) == IF a < b THEN a ELSE b

ABS(a) == IF a < 0 THEN 0 - a ELSE a

RECURSIVE SumOver(_, _)
SumOver(r, cols) ==
    IF cols = {} THEN 0
    ELSE LET j == CHOOSE x \in cols : TRUE
         IN  r[j] + SumOver(r, cols \ {j})

RECURSIVE MinOver(_, _)
MinOver(r, cols) ==
    IF cols = {} THEN 0
    ELSE LET j == CHOOSE x \in cols : TRUE
         IN  MIN(MinOver(r, cols \ {j}), r[j])

\* row_scale=0; ... row_scale=MIN(row_scale, aj[j]) over the whole row
row_scale(r) == MinOver(r, DOMAIN r)

\* fasp_dcsr_getdiag: the stored diagonal entry, 0.0 (calloc) when none is stored
getdiag(r, row) == IF row \in DOMAIN r THEN r[row] ELSE 0

\* row_sum=ABS(row_sum)/MAX(SMALLREAL,ABS(diag.val[i])) compared with a
\* fraction cap; with integer entries ABS(row_sum)/SMALLREAL exceeds every
\* cap as soon as the sum is not zero
RowSumExceeds(r, row, cap) ==
    IF getdiag(r, row) = 0
    THEN SumOver(r, DOMAIN r) # 0
    ELSE ABS(SumOver(r, DOMAIN r)) * cap[2] > cap[1] * ABS(getdiag(r, row))

\* the row-sum test with the comparison turned round
AllWeak_Below(r, row, cap) == ~RowSumExceeds(r, row, cap) /\ cap[1] < cap[2]

\* if ((row_sum>max_row_sum)&&(max_row_sum<1))
AllWeak(r, row, cap) == RowSumExceeds(r, row, cap) /\ cap[1] < cap[2]

\* the weak test with equality counted as strong
Weak_Strict(a, theta, scale) == a * theta[2] > theta[1] * scale

\* if (A->val[j]>=epsilon_str*row_scale) S->JA[j]=-1;
Weak(a, theta, scale) == a * theta[2] >= theta[1] * scale

\* S->JA of the row before compression: -1 marks a dropped entry
MarkRow(r, row, theta, cap) ==
    [j \in DOMAIN r |->
        IF j = row THEN -1
        ELSE IF AllWeak(r, row, cap) THEN -1
        ELSE IF Weak(r[j], theta, row_scale(r)) THEN -1
        ELSE j]

\* "Compress the strength matrix": the entries that are > -1, in storage order
CompressRow(marks) == Ascending({j \in DOMAIN marks : marks[j] > -1})

GSInit ==
    /\ strong_threshold \in Thresholds
    /\ max_row_sum \in RowSumCaps
    /\ gs_i \in V
    /\ gs_pc = "row"
    /\ A_row \in RowInputs
    /\ S_row = <<>>
    /\ NoSplitter
    /\ NoHierarchy
    /\ NoCycle
    /\ NoSetup
    /\ NoAggressive
    /\ NoLater

\* one turn of for (i=0;i<row;++i) and the compression of that row
GenerateRow ==
    /\ gs_pc = "row"
    /\ S_row' = CompressRow(MarkRow(A_row, gs_i, strong_threshold,
                                    max_row_sum))
    /\ gs_pc' = "done"
    /\ UNCHANGED <<strong_threshold, max_row_sum, gs_i, A_row>>
    /\ UNCHANGED <<cfVars, hVars, cyVars, suVars, agVars, laterVars>>

GSNext == GenerateRow

SpecGS == GSInit /\ [][GSNext]_vars

\* the index of the row held in A_row and S_row
ThisRow == gs_i

InS(j) == \E k \in DOMAIN S_row : S_row[k] = j

\* the row held in A_row is suppressed by the row-sum cap as the code does it
Suppressed == AllWeak(A_row, ThisRow, max_row_sum)

\* theta * min_k a_ik, over the stored entries of the row, against a_ij
AtMostThetaMin(j) ==
    \A m \in DOMAIN A_row :
        (\A k \in DOMAIN A_row : A_row[m] <= A_row[k]) =>
            A_row[j] * strong_threshold[2] <= strong_threshold[1] * A_row[m]

BelowThetaMin(j) ==
    \A m \in DOMAIN A_row :
        (\A k \in DOMAIN A_row : A_row[m] <= A_row[k]) =>
            A_row[j] * strong_threshold[2] < strong_threshold[1] * A_row[m]

\* C11 as stated: in a row that the row-sum cap does not suppress an
\* off-diagonal stored entry (i,j) is an edge of S if and only if
\* a_ij <= theta * min_k a_ik, and the diagonal is never an edge of S.
C11_StrongIffAtMost ==
    gs_pc = "done" =>
        /\ ~InS(ThisRow)
        /\ ~Suppressed =>
               \A j \in DOMAIN A_row \ {ThisRow} : InS(j) <=> AtMostThetaMin(j)

\* C11 amended: in a row that the row-sum cap does not suppress an
\* off-diagonal stored entry (i,j) is an edge of S if and only if
\* a_ij < theta * min_k a_ik (equality is a weak coupling), and the diagonal
\* is never an edge of S.
C11_StrongIffBelow ==
    gs_pc = "done" =>
        /\ ~InS(ThisRow)
        /\ ~Suppressed =>
               \A j \in DOMAIN A_row \ {ThisRow} : InS(j) <=> BelowThetaMin(j)

\* a row that is not suppressed and holds a strong coupling, a coupling equal
\* to theta times the minimum, and a stored diagonal
C11_Witness ==
    /\ gs_pc = "done"
    /\ ~Suppressed
    /\ ThisRow \in DOMAIN A_row
    /\ \E j \in DOMAIN A_row \ {ThisRow} : InS(j)
    /\ \E j \in DOMAIN A_row \ {ThisRow} :
           /\ A_row[j] * strong_threshold[2]
                  = strong_threshold[1] * row_scale(A_row)
           /\ A_row[j] < 0
           /\ ~InS(j)

\* the absolute row sum over the absolute diagonal exceeds the cap
OverCap == RowSumExceeds(A_row, ThisRow, max_row_sum)

\* C12 as stated: a row of A whose absolute row sum divided by the absolute
\* diagonal exceeds the row-sum cap has no edge in S, whatever the cap.
C12_OverCapNoEdge ==
    (gs_pc = "done" /\ OverCap) => S_row = <<>>

\* C12 amended: a row of A whose absolute row sum divided by the absolute
\* diagonal exceeds the row-sum cap has no edge in S, provided the cap is
\* below 1; with a cap of 1 or more no row is suppressed.
C12_OverCapBelowOneNoEdge ==
    (gs_pc = "done" /\ OverCap /\ max_row_sum[1] < max_row_sum[2]) => S_row = <<>>

\* a row over a cap below 1 that would hold a strong coupling otherwise
C12_Witness ==
    /\ gs_pc = "done"
    /\ OverCap
    /\ max_row_sum[1] < max_row_sum[2]
    /\ ThisRow \in DOMAIN A_row
    /\ \E j \in DOMAIN A_row \ {ThisRow} : BelowThetaMin(j)
    /\ S_row = <<>>

(***************************************************************************)
(* form_coarse_level_ag, base/src/coarsening_rs.c: aggressive coarsening.  *)
(* Phase one is form_coarse_level with INTERP_STD (fasp_amg_coarsening_rs  *)
(* forces it for COARSE_AC), phase two runs the greedy choice again on the *)
(* graph Sh of the temporary coarse points, phase three promotes the fine  *)
(* vertices that have no coarse vertex within distance two.  Coarse        *)
(* indices ci count from 1 here, from 0 in the code.                       *)
(***************************************************************************)
\* param->aggressive_path
AggressivePaths == {1, 2}

\* cp_index: the vertices labelled CGPT, ascending
CoarseIndex(vc) == Ascending({v \in V : vc[v] = CGPT})

\* cp_rindex[v]
cp_rindex(cpi, v) == CHOOSE c \in DOMAIN cpi : cpi[c] = v

\* the coarse points reached from vertex r through the fine vertex fj
RECURSIVE ViaFine(_, _, _, _)
ViaFine(vc, r, fj, k) ==
    IF k > Len(S[fj]) THEN <<>>
    ELSE (IF vc[S[fj][k]] = CGPT /\ S[fj][k] # r
          THEN <<<<"via", S[fj][k]>>>> ELSE <<>>)
         \o ViaFine(vc, r, fj, k + 1)

\* the coarse points visited from vertex r, in the order of the two loops
RECURSIVE Visits(_, _, _)
Visits(vc, r, j) ==
    IF j > Len(S[r]) THEN <<>>
    ELSE LET fj == S[r][j] IN
         (IF vc[fj] = CGPT /\ fj # r THEN <<<<"direct", fj>>>>
          ELSE IF vc[fj] = FGPT THEN ViaFine(vc, r, fj, 1)
          ELSE <<>>)
         \o Visits(vc, r, j + 1)

\* times_visited along the visits of one coarse point: "no", "once" (-ci-1)
\* or "yes" (ci+1); the result is the row of Sh
RECURSIVE WalkVisits(_, _, _, _, _)
WalkVisits(path, cpi, visits, k, seen) ==
    IF k > Len(visits) THEN <<>>
    ELSE LET cj == cp_rindex(cpi, visits[k][2])
             direct == visits[k][1] = "direct" \/ path < 2
         IN  IF seen[cj] = "yes"
             THEN WalkVisits(path, cpi, visits, k + 1, seen)
             ELSE IF direct \/ seen[cj] = "once"
             THEN <<cj>> \o WalkVisits(path, cpi, visits, k + 1,
                                        [seen EXCEPT ![cj] = "yes"])
             ELSE WalkVisits(path, cpi, visits, k + 1,
                             [seen EXCEPT ![cj] = "once"])

\* generate_S_rs_ag_1 (path < 2) and generate_S_rs_ag_2
generate_S_rs_ag(path, vc) ==
    LET cpi == CoarseIndex(vc)
    IN  [ci \in DOMAIN cpi |->
            WalkVisits(path, cpi, Visits(vc, cpi[ci], 1), 1,
                       [c \in DOMAIN cpi |-> "no"])]

\* fasp_icsr_trans of Sh: row cj lists the rows of Sh that hold cj, ascending
ShTrans(sh) ==
    [cj \in DOMAIN sh |->
        Ascending({ci \in DOMAIN sh : \E k \in DOMAIN sh[ci] : sh[ci][k] = cj})]

\* 2., the coarse neighbours of a coarse point of measure zero
RECURSIVE AGStep2Nbrs(_, _, _, _, _)
AGStep2Nbrs(st, sh, cpi, ci, ck) ==
    IF ck > Len(sh[ci]) THEN st
    ELSE LET cj == sh[ci][ck] IN
         IF st.vec[cpi[cj]] # ISPT
         THEN IF cj < ci
              THEN LET new_meas == st.lambda[cj]
                       q1 == IF new_meas > 0
                             THEN remove_node(st.lists, new_meas, cj)
                             ELSE st.lists
                       n1 == IF new_meas > 0 THEN Dec(st.num_left)
                             ELSE st.num_left
                   IN  AGStep2Nbrs([st EXCEPT
                                      !.lambda[cj] = new_meas + 1,
                                      !.lists = enter_list(q1, new_meas + 1, cj),
                                      !.num_left = n1 + 1],
                                   sh, cpi, ci, ck + 1)
              ELSE AGStep2Nbrs([st EXCEPT !.lambda[cj] = @ + 1],
                               sh, cpi, ci, ck + 1)
         ELSE AGStep2Nbrs(st, sh, cpi, ci, ck + 1)

\* 2., one coarse point
AGStep2Point(st, sh, cpi, ci) ==
    IF st.vec[cpi[ci]] = ISPT THEN st
    ELSE IF st.lambda[ci] > 0
         THEN [st EXCEPT !.lists = enter_list(@, st.lambda[ci], ci),
                         !.num_left = @ + 1]
         ELSE AGStep2Nbrs([st EXCEPT !.vec[cpi[ci]] = FGPT], sh, cpi, ci, 1)

RECURSIVE AGStep2(_, _, _, _)
AGStep2(st, sh, cpi, ci) ==
    IF ci > Len(cpi) THEN st
    ELSE AGStep2(AGStep2Point(st, sh, cpi, ci), sh, cpi, ci + 1)

\* the measure of the temporary coarse neighbours of cj goes up by one
RECURSIVE AGRaise(_, _, _, _, _)
AGRaise(st, sh, cpi, cj, cl) ==
    IF cl > Len(sh[cj]) THEN st
    ELSE LET ck == sh[cj][cl] IN
         IF st.vec[cpi[ck]] = CGPT
         THEN LET q1 == remove_node(st.lists, st.lambda[ck], ck)
                  new_meas == st.lambda[ck] + 1
              IN  AGRaise([st EXCEPT !.lambda[ck] = new_meas,
                                     !.lists = enter_list(q1, new_meas, ck)],
                          sh, cpi, cj, cl + 1)
         ELSE AGRaise(st, sh, cpi, cj, cl + 1)

\* 4., the temporary coarse points that depend on maxnode become fake (4)
RECURSIVE AGFake(_, _, _, _, _, _)
AGFake(st, sh, sht, cpi, maxnode, ci) ==
    IF ci > Len(sht[maxnode]) THEN st
    ELSE LET cj == sht[maxnode][ci] IN
         IF st.vec[cpi[cj]] = CGPT
         THEN LET s1 == [st EXCEPT
                           !.vec[cpi[cj]] = 4,
                           !.lists = remove_node(@, st.lambda[cj], cj),
                           !.num_left = Dec(@)]
              IN  AGFake(AGRaise(s1, sh, cpi, cj, 1), sh, sht, cpi, maxnode,
                         ci + 1)
         ELSE AGFake(st, sh, sht, cpi, maxnode, ci + 1)

\* 4., the temporary coarse points maxnode depends on lose one unit
RECURSIVE AGLower(_, _, _, _, _)
AGLower(st, sh, cpi, maxnode, ci) ==
    IF ci > Len(sh[maxnode]) THEN st
    ELSE LET cj == sh[maxnode][ci] IN
         IF st.vec[cpi[cj]] = CGPT
         THEN LET measure == st.lambda[cj] - 1
                  q1 == remove_node(st.lists, st.lambda[cj], cj)
              IN  IF measure > 0
                  THEN AGLower([st EXCEPT !.lambda[cj] = measure,
                                          !.lists = enter_list(q1, measure, cj)],
                               sh, cpi, maxnode, ci + 1)
                  ELSE AGLower(AGRaise([st EXCEPT !.lambda[cj] = measure,
                                                  !.lists = q1,
                                                  !.vec[cpi[cj]] = 4,
                                                  !.num_left = Dec(@)],
                                       sh, cpi, cj, 1),
                               sh, cpi, maxnode, ci + 1)
         ELSE AGLower(st, sh, cpi, maxnode, ci + 1)

\* the turn of the main loop without --num_left for maxnode
AGMainLoopBody_NotCounted(st, sh, cpi) ==
    LET maxnode   == LoL_head(st.lists)
        maxlambda == st.lambda[maxnode]
        s1 == [st EXCEPT !.vec[cpi[maxnode]] = 3,
                         !.lists = remove_node(@, maxlambda, maxnode),
                         !.lambda[maxnode] = 0,
                         !.col = @ + 1]
    IN  AGLower(AGFake(s1, sh, ShTrans(sh), cpi, maxnode, 1),
                sh, cpi, maxnode, 1)

\* 4., one turn of the main loop: maxnode becomes a real coarse point (3)
AGMainLoopBody(st, sh, cpi) ==
    LET maxnode   == LoL_head(st.lists)
        maxlambda == st.lambda[maxnode]
        s1 == [st EXCEPT !.vec[cpi[maxnode]] = 3,
                         !.num_left = Dec(@),
                         !.lists = remove_node(@, maxlambda, maxnode),
                         !.lambda[maxnode] = 0,
                         !.col = @ + 1]
    IN  AGLower(AGFake(s1, sh, ShTrans(sh), cpi, maxnode, 1),
                sh, cpi, maxnode, 1)

\* "organize the variable type": 1 and 4 become FGPT, then 3 becomes CGPT
Organize(vc) ==
    [v \in V |-> IF vc[v] = CGPT \/ vc[v] = 4 THEN FGPT
                 ELSE IF vc[v] = 3 THEN CGPT
                 ELSE vc[v]]

(***************************************************************************)
(* Phase three of form_coarse_level_ag.  Without _OPENMP it is the loop    *)
(* for (i=0; i<row; i++).  With _OPENMP it is a parallel for over myid,    *)
(* iteration myid treating the rows from mybegin to myend-1; the clause    *)
(* if(row>OPENMP_HOLDS) decides whether the iterations are spread over a   *)
(* team or run one after the other by a single thread.  sub_col is named   *)
(* in the private clause, so every thread has a copy of its own whose      *)
(* first value is indeterminate.  Iterations count from 1 here.            *)
(***************************************************************************)
\* the values an uninitialized sub_col is given here
Indeterminate == {0, 1}

\* the builds and teams: the serial build has one loop over all the rows; a
\* build with _OPENMP has FASP_GET_NUM_THREADS() = 2 iterations here
Teams ==
    {[build |-> "serial", nthreads |-> 1, parallel |-> FALSE]}
    \cup {[build |-> "openmp", nthreads |-> 2, parallel |-> par] :
             par \in BOOLEAN}

\* the private sub_col of thread t is held as its first value, init, and the
\* number of sub_col++ done since, inc; init is -1 as long as the first value,
\* which is indeterminate, has not been added to col
FirstValues(t) ==
    IF sub_col[t].init = -1 THEN Indeterminate ELSE {sub_col[t].init}

\* FASP_GET_START_END: contiguous blocks of rows
mybegin(team, myid) == ((myid - 1) * NumV) \div team.nthreads
myend(team, myid) == (myid * NumV) \div team.nthreads

\* the thread that runs iteration myid
ThreadOf(team, myid) == IF team.parallel THEN myid ELSE 1

\* flag set for any strong neighbour that is Coarse or Fine
NearCoarse_AnyNeighbour(vc, r) ==
    \E j \in DOMAIN S[r] :
        LET k == S[r][j] IN
        \/ vc[k] = CGPT
        \/ vc[k] = FGPT

\* flag: a coarse vertex within distance two of r along S
NearCoarse(vc, r) ==
    \E j \in DOMAIN S[r] :
        LET k == S[r][j] IN
        \/ vc[k] = CGPT
        \/ vc[k] = FGPT /\ \E l \in DOMAIN S[k] : vc[S[k][l]] = CGPT

\* the next row from r on that is labelled FGPT, or the end of the block; the
\* turns of the loop for the other rows read vec[i] only, which no other
\* iteration writes, and are taken together with the step before them
RECURSIVE NextFine(_, _, _)
NextFine(vc, r, end) ==
    IF r >= end \/ vc[r] = FGPT THEN r ELSE NextFine(vc, r + 1, end)

\* the loop for (i=0; i<row; i++) run by one thread from row r on
RECURSIVE SerialPhaseThree(_, _)
SerialPhaseThree(vc, r) ==
    IF r >= NumV THEN vc
    ELSE IF vc[r] = FGPT /\ ~NearCoarse(vc, r)
         THEN SerialPhaseThree([vc EXCEPT ![r] = CGPT], r + 1)
         ELSE SerialPhaseThree(vc, r + 1)

AGInit ==
    /\ CFStart
    /\ Cardinality({e \in Pairs : e[2] \in Strong(e[1])}) <= MaxAgEdges
    /\ interp_type = "INTERP_STD"
    /\ NoHierarchy
    /\ NoCycle
    /\ NoSetup
    /\ NoStrength
    /\ NoLater
    /\ ag_pc = "phase1"
    /\ Sh = <<>>
    /\ cp_index = <<>>
    /\ ag_lambda = <<>>
    /\ ag_lists = <<>>
    /\ ag_num_left = 0
    /\ ag_col = 0
    /\ omp = <<>>
    /\ chunk = <<>>
    /\ sub_col = <<>>
    /\ vec_phase3 = <<>>

AGWork == [vec |-> vec, lambda |-> ag_lambda, lists |-> ag_lists,
           num_left |-> ag_num_left, col |-> ag_col]

SetAGWork(st) ==
    /\ vec' = st.vec
    /\ ag_lambda' = st.lambda
    /\ ag_lists' = st.lists
    /\ ag_num_left' = st.num_left
    /\ ag_col' = st.col

\* form_coarse_level has returned: Sh, its transpose, steps 1 and 2
GenerateSh ==
    /\ ag_pc = "phase1"
    /\ pc = "done"
    /\ \E path \in AggressivePaths :
           LET sh  == generate_S_rs_ag(path, vec)
               cpi == CoarseIndex(vec)
               sht == ShTrans(sh)
               st0 == [vec |-> vec,
                       lambda |-> [ci \in DOMAIN cpi |-> Len(sht[ci])],
                       lists |-> <<>>, num_left |-> 0, col |-> 0]
           IN  /\ Sh' = sh
               /\ cp_index' = cpi
               /\ SetAGWork(AGStep2(st0, sh, cpi, 1))
    /\ ag_pc' = "main"
    /\ UNCHANGED <<omp, chunk, sub_col, vec_phase3>>
    /\ UNCHANGED <<S, nnzRow, interp_type, lambda, lists, num_left, col, pc, i,
                   ci_tilde, ci_tilde_mark, C_i_nonempty, graph_array>>
    /\ UNCHANGED <<hVars, cyVars, suVars, gsVars, laterVars>>

\* one turn of while (num_left>0)
AGMainLoop ==
    /\ ag_pc = "main"
    /\ Positive(ag_num_left)
    /\ IF ag_lists = <<>>
       THEN /\ ag_pc' = "crash"   \* LoL_head is NULL and is dereferenced
            /\ UNCHANGED <<vec, ag_lambda, ag_lists, ag_num_left, ag_col>>
       ELSE /\ SetAGWork(AGMainLoopBody(AGWork, Sh, cp_index))
            /\ ag_pc' = "main"
    /\ UNCHANGED <<Sh, cp_index, omp, chunk, sub_col, vec_phase3>>
    /\ UNCHANGED <<S, nnzRow, interp_type, lambda, lists, num_left, col, pc, i,
                   ci_tilde, ci_tilde_mark, C_i_nonempty, graph_array>>
    /\ UNCHANGED <<hVars, cyVars, suVars, gsVars, laterVars>>

\* the main loop is left, the labels are organized, phase three starts
AGOrganize ==
    /\ ag_pc = "main"
    /\ ~Positive(ag_num_left)
    /\ vec' = Organize(vec)
    /\ vec_phase3' = vec'
    /\ \E team \in Teams :
           /\ omp' = team
           /\ chunk' = [myid \in 1 .. team.nthreads |->
                           [i |-> NextFine(vec', mybegin(team, myid),
                                           myend(team, myid)),
                            flag |-> -1, done |-> FALSE]]
           /\ sub_col' = [t \in 1 .. team.nthreads |->
                             [init |-> -1, inc |-> 0]]
    /\ ag_pc' = "phase3"
    \* Sh, ShT, the queue and lambda are not read again
    /\ Sh' = <<>>
    /\ cp_index' = <<>>
    /\ ag_lambda' = <<>>
    /\ ag_lists' = <<>>
    /\ UNCHANGED <<ag_num_left, ag_col>>
    /\ UNCHANGED <<S, nnzRow, interp_type, lambda, lists, num_left, col, pc, i,
                   ci_tilde, ci_tilde_mark, C_i_nonempty, graph_array>>
    /\ UNCHANGED <<hVars, cyVars, suVars, gsVars, laterVars>>

\* iteration myid may take a step
Running(myid) ==
    /\ ag_pc = "phase3"
    /\ myid \in DOMAIN chunk
    /\ ~chunk[myid].done
    /\ omp.parallel \/ \A u \in 1 .. (myid - 1) : chunk[u].done

\* the reads of one turn of the loop over i: vec[i] and the flag
PhaseThreeScan(myid) ==
    /\ Running(myid)
    /\ chunk[myid].i < myend(omp, myid)
    /\ chunk[myid].flag = -1
    /\ LET r == chunk[myid].i IN
       IF vec[r] = FGPT /\ ~NearCoarse(vec, r)
       THEN chunk' = [chunk EXCEPT ![myid].flag = 0]
       ELSE chunk' = [chunk EXCEPT
                        ![myid].i = NextFine(vec, r + 1, myend(omp, myid))]
    /\ UNCHANGED <<vec, ag_pc, Sh, cp_index, ag_lambda, ag_lists, ag_num_left,
                   ag_col, omp, sub_col, vec_phase3>>
    /\ UNCHANGED <<S, nnzRow, interp_type, lambda, lists, num_left, col, pc, i,
                   ci_tilde, ci_tilde_mark, C_i_nonempty, graph_array>>
    /\ UNCHANGED <<hVars, cyVars, suVars, gsVars, laterVars>>

\* if (flag==0): vec[i]=CGPT and sub_col++, or col++ in the serial build
PhaseThreePromote(myid) ==
    /\ Running(myid)
    /\ chunk[myid].flag = 0
    /\ vec' = [vec EXCEPT ![chunk[myid].i] = CGPT]
    /\ chunk' = [chunk EXCEPT
                    ![myid].i = NextFine(vec', @ + 1, myend(omp, myid)),
                    ![myid].flag = -1]
    /\ IF omp.build = "serial"
       THEN /\ ag_col' = ag_col + 1
            /\ UNCHANGED sub_col
       ELSE /\ sub_col' = [sub_col EXCEPT ![ThreadOf(omp, myid)].inc = @ + 1]
            /\ UNCHANGED ag_col
    /\ UNCHANGED <<ag_pc, Sh, cp_index, ag_lambda, ag_lists, ag_num_left, omp,
                   vec_phase3>>
    /\ UNCHANGED <<S, nnzRow, interp_type, lambda, lists, num_left, col, pc, i,
                   ci_tilde, ci_tilde_mark, C_i_nonempty, graph_array>>
    /\ UNCHANGED <<hVars, cyVars, suVars, gsVars, laterVars>>

\* the end of iteration myid: col += sub_col inside omp critical(col)
PhaseThreeAdd(myid) ==
    /\ Running(myid)
    /\ chunk[myid].i >= myend(omp, myid)
    /\ chunk[myid].flag = -1
    /\ chunk' = [chunk EXCEPT ![myid].done = TRUE]
    /\ IF omp.build = "serial"
       THEN UNCHANGED <<ag_col, sub_col>>
       ELSE \E g \in FirstValues(ThreadOf(omp, myid)) :
                /\ ag_col' = ag_col + g + sub_col[ThreadOf(omp, myid)].inc
                /\ sub_col' = [sub_col EXCEPT ![ThreadOf(omp, myid)].init = g]
    /\ UNCHANGED <<vec, ag_pc, Sh, cp_index, ag_lambda, ag_lists, ag_num_left,
                   omp, vec_phase3>>
    /\ UNCHANGED <<S, nnzRow, interp_type, lambda, lists, num_left, col, pc, i,
                   ci_tilde, ci_tilde_mark, C_i_nonempty, graph_array>>
    /\ UNCHANGED <<hVars, cyVars, suVars, gsVars, laterVars>>

\* the end of the region and return col
AGReturn ==
    /\ ag_pc = "phase3"
    /\ \A myid \in DOMAIN chunk : chunk[myid].done
    /\ ag_pc' = "done"
    /\ UNCHANGED <<vec, Sh, cp_index, ag_lambda, ag_lists, ag_num_left, ag_col,
                   omp, chunk, sub_col, vec_phase3>>
    /\ UNCHANGED <<S, nnzRow, interp_type, lambda, lists, num_left, col, pc, i,
                   ci_tilde, ci_tilde_mark, C_i_nonempty, graph_array>>
    /\ UNCHANGED <<hVars, cyVars, suVars, gsVars, laterVars>>

PhaseThree ==
    \E myid \in DOMAIN chunk :
        PhaseThreeScan(myid) \/ PhaseThreePromote(myid) \/ PhaseThreeAdd(myid)

AGNext ==
    \/ Initialize \/ MainLoop \/ MainLoopExit
    \/ GenerateSh \/ AGMainLoop \/ AGOrganize \/ PhaseThree \/ AGReturn

SpecAG == AGInit /\ [][AGNext]_vars

\* the classical path and the aggressive path of fasp_amg_coarsening_rs
SplitInit == CFInit \/ AGInit

SplitNext == CFNext \/ AGNext

SpecSplit == SplitInit /\ [][SplitNext]_vars

\* the number of vertices labelled CGPT
NumCoarse(vc) == Cardinality({v \in V : vc[v] = CGPT})

\* C13: once the labels are initialized, and so when the C/F splitting
\* returns on the classical or on the aggressive path, a vertex is labelled
\* Isolated if and only if its row of A holds at most one stored entry; a
\* vertex with an empty row of S and two or more stored entries is never
\* Isolated, and no phase changes an Isolated label.
C13_IsolatedIffSingleEntry ==
    pc # "start" =>
        \A v \in V : vec[v] = ISPT <=> nnzRow[v] <= 1

\* the aggressive path has returned with an Isolated vertex, a vertex that
\* has no strong coupling and is not Isolated, and a vertex promoted by
\* phase three
C13_Witness ==
    /\ ag_pc = "done"
    /\ \E v \in V : vec[v] = ISPT
    /\ \E v \in V : S[v] = <<>> /\ nnzRow[v] >= 2 /\ vec[v] # ISPT
    /\ \E v \in V : vec_phase3[v] = FGPT /\ vec[v] = CGPT

\* C18 as stated: phase three decides the vertices in ascending order, each
\* decision seeing the promotions of all lower vertices, so the labels it
\* leaves are those of the loop run by one thread, for every team and
\* schedule.
C18_SameAsSerial ==
    ag_pc = "done" => vec = SerialPhaseThree(vec_phase3, 0)

\* C19 as stated: after the parallel region of phase three the counter col
\* holds the value the sequential loop produces, the number of coarse points
\* chosen by phase two plus the number of vertices phase three promoted.
C19_ColExact ==
    ag_pc = "done" => ag_col = NumCoarse(vec)

(***************************************************************************)
(* generate_sparsity_P and interp_RS, followed for one row i of P.  The    *)
(* truncation pass of interp_STD is the same statements as the one of      *)
(* interp_RS.  Reals are fractions <<numerator, denominator>>.             *)
(***************************************************************************)
MaxNbrs == 2        \* stored entries of row i of S

\* the values the weight formulas of step 3 give the entries of a Fine row
WeightValues == {-2, -1, 0, 1, 2}

\* param->truncation_threshold: the default 0.2, 0.75, 1 and 1.5
TruncationThresholds == {<<1, 5>>, <<3, 4>>, <<1, 1>>, <<3, 2>>}

\* the rows that S can hold for vertex r: off-diagonal, no column twice; the
\* columns are taken ascending, the passes below treat every entry alike
StrongRows(r) ==
    {Ascending(c) : c \in {d \in SUBSET (V \ {r}) : Cardinality(d) <= MaxNbrs}}

\* the Coarse vertices among the entries of a row of S
CoarseNbrs(vc, srow) == {srow[n] : n \in DOMAIN srow} \cap {v \in V : vc[v] = CGPT}

\* P->JA of row r: the strong Coarse neighbours of a Fine vertex in the order
\* of S, nothing for an Isolated vertex, the vertex itself otherwise
generate_sparsity_P(vc, r, srow) ==
    IF vc[r] = FGPT THEN SelectSeq(srow, LAMBDA k : vc[k] = CGPT)
    ELSE IF vc[r] = ISPT THEN <<>>
    ELSE <<r>>

\* step 3 of interp_RS: P.val of row r; P.val[P.IA[i]]=1 on a Coarse row
Filled(vc, r, ja, w) ==
    [n \in DOMAIN ja |->
        [ja |-> ja[n], val |-> IF vc[r] = FGPT THEN w[ja[n]] ELSE 1]]

\* the index counted one vertex too far
CoarseIndexAt_Next(vc, k) ==
    IF vc[k] = CGPT THEN Cardinality({v \in V : v <= k /\ vc[v] = CGPT}) ELSE 0

\* if(vec[i]==1) { CoarseIndex[i]=index; index++; } on a calloc'ed array
CoarseIndexAt(vc, k) ==
    IF vc[k] = CGPT THEN Cardinality({v \in V : v < k /\ vc[v] = CGPT}) ELSE 0

\* P.JA[i]=CoarseIndex[j]
Renumbered(vc, row) ==
    [n \in DOMAIN row |-> [row[n] EXCEPT !.ja = CoarseIndexAt(vc, @)]]

\* mSum, mTruncedSum (sign -1) and pSum, pTruncedSum (sign 1) of a row
RECURSIVE SignedSum(_, _)
SignedSum(row, sign) ==
    IF row = <<>> THEN 0
    ELSE (IF row[1].val * sign > 0 THEN row[1].val ELSE 0)
         + SignedSum(Tail(row), sign)

\* mMin (sign -1) and pMax (sign 1): the extreme entry of a sign, 0 if none
RECURSIVE Extreme(_, _)
Extreme(row, sign) ==
    IF row = <<>> THEN 0
    ELSE LET rest == Extreme(Tail(row), sign)
         IN  IF row[1].val * sign > rest * sign THEN row[1].val ELSE rest

\* !(P.val[j]>mMin*epsilon_tr) for P.val[j]<0, !(P.val[j]<pMax*epsilon_tr)
\* for P.val[j]>0
Survives(e, row, eps) ==
    \/ e.val < 0 /\ ~(e.val * eps[2] > Extreme(row, -1) * eps[1])
    \/ e.val > 0 /\ ~(e.val * eps[2] < Extreme(row, 1) * eps[1])

\* the surviving entry left as it was
Rescaled_Not(val, truncedSum, sum) == <<val, 1>>

\* P.val[j]/mTruncedSum*mSum, P.val[j]/pTruncedSum*pSum
Rescaled(val, truncedSum, sum) == <<val * sum, truncedSum>>

\* the truncation pass on one row
Truncated(row, eps) ==
    LET kept   == SelectSeq(row, LAMBDA e : Survives(e, row, eps))
        sgn(e) == IF e.val < 0 THEN -1 ELSE 1
    IN  [n \in DOMAIN kept |->
            [kept[n] EXCEPT !.val =
                Rescaled(@, SignedSum(kept, sgn(kept[n])),
                            SignedSum(row, sgn(kept[n])))]]

\* row i of P as interp_RS leaves it after step 3 and the renumbering
BeforeTruncation ==
    Renumbered(vertices,
               Filled(vertices, ip_i,
                      generate_sparsity_P(vertices, ip_i, S_i), weights))

IPInit ==
    /\ vertices \in [V -> {FGPT, CGPT, ISPT}]
    /\ ip_i \in V
    /\ S_i \in StrongRows(ip_i)
    /\ weights \in [CoarseNbrs(vertices, S_i) -> WeightValues]
    /\ epsilon_tr \in TruncationThresholds
    /\ P_col = 0
    /\ P_i = <<>>
    /\ ip_pc = "sparsity"
    /\ NoSplitter
    /\ NoHierarchy
    /\ NoCycle
    /\ NoSetup
    /\ NoStrength
    /\ NoAggressive
    /\ NoGalerkin
    /\ NoSort

\* generate_sparsity_P(P, S, vertices, row, col): P->col=col, the number of
\* CGPT vertices that form_coarse_level returns; P->val is calloc'ed
GenerateSparsity ==
    /\ ip_pc = "sparsity"
    /\ P_col' = Cardinality({v \in V : vertices[v] = CGPT})
    /\ P_i' = [n \in DOMAIN generate_sparsity_P(vertices, ip_i, S_i) |->
                  [ja |-> generate_sparsity_P(vertices, ip_i, S_i)[n], val |-> 0]]
    /\ ip_pc' = "interp"
    /\ UNCHANGED <<vertices, ip_i, S_i, weights, epsilon_tr>>
    /\ UNCHANGED <<cfVars, hVars, cyVars, suVars, gsVars, agVars, rapVars,
                   sortVars>>

\* interp_RS: step 3, the renumbering of the columns and the truncation
Interp ==
    /\ ip_pc = "interp"
    /\ P_i' = Truncated(Renumbered(vertices,
                  Filled(vertices, ip_i,
                         [n \in DOMAIN P_i |-> P_i[n].ja], weights)),
                  epsilon_tr)
    /\ ip_pc' = "done"
    /\ UNCHANGED <<vertices, ip_i, S_i, weights, epsilon_tr, P_col>>
    /\ UNCHANGED <<cfVars, hVars, cyVars, suVars, gsVars, agVars, rapVars,
                   sortVars>>

IPNext == GenerateSparsity \/ Interp

SpecIP == IPInit /\ [][IPNext]_vars

(***************************************************************************)
(* Properties of the interpolation.                                        *)
(***************************************************************************)
\* a/b + c/d
RECURSIVE SumOfSign(_, _)
SumOfSign(row, sign) ==
    IF row = <<>> THEN <<0, 1>>
    ELSE LET rest == SumOfSign(Tail(row), sign)
             v    == row[1].val
         IN  IF v[1] * v[2] * sign > 0
             THEN <<v[1] * rest[2] + rest[1] * v[2], v[2] * rest[2]>>
             ELSE rest

\* the sums of the weights of one sign before and after the truncation agree
SumsPreserved ==
    \A sign \in {-1, 1} :
        LET after  == SumOfSign(P_i, sign)
            before == SignedSum(BeforeTruncation, sign)
        IN  after[1] = before * after[2]

FractionAtMostOne == epsilon_tr[1] <= epsilon_tr[2]

\* C15 as stated: for every truncation fraction the surviving positive
\* weights of a row of P sum to what the positive weights summed to before
\* the truncation, and likewise the negative weights.
C15_SumsPreserved == ip_pc = "done" => SumsPreserved

\* C15: for every truncation fraction of at most 1 the surviving positive
\* weights of a row of P sum to what the positive weights summed to before
\* the truncation, and likewise the negative weights.
C15_SumsPreservedUpToOne ==
    (ip_pc = "done" /\ FractionAtMostOne) => SumsPreserved

\* a Fine row loses a weight that is not zero and keeps another
C15_Witness ==
    /\ ip_pc = "done"
    /\ FractionAtMostOne
    /\ vertices[ip_i] = FGPT
    /\ P_i # <<>>
    /\ Len(P_i) < Len(SelectSeq(BeforeTruncation, LAMBDA e : e.val # 0))
    /\ SumsPreserved

\* the row of a Coarse vertex holds one entry, of value 1, in the column that
\* is the number of Coarse vertices below it, and every column of the row is
\* in [0, P.col)
CoarseRowIsIdentity ==
    /\ vertices[ip_i] = CGPT =>
           /\ Len(P_i) = 1
           /\ P_i[1].ja = Cardinality({v \in V : v < ip_i /\ vertices[v] = CGPT})
           /\ P_i[1].val[2] # 0
           /\ P_i[1].val[1] = P_i[1].val[2]
    /\ \A n \in DOMAIN P_i : P_i[n].ja \in 0 .. (P_col - 1)

\* C16 as stated: in the final P the row of every Coarse vertex has exactly
\* one entry, of value 1, in the column of its own coarse index, and all
\* column indices lie in [0, P.col).
C16_CoarseRowIdentity == ip_pc = "done" => CoarseRowIsIdentity

\* C16: when the truncation fraction is at most 1, in the final P the row of
\* every Coarse vertex has exactly one entry, of value 1, in the column of its
\* own coarse index, and all column indices lie in [0, P.col).
C16_CoarseRowIdentityUpToOne ==
    (ip_pc = "done" /\ FractionAtMostOne) => CoarseRowIsIdentity

\* the last of several Coarse vertices, after a truncation with fraction 1
C16_Witness ==
    /\ ip_pc = "done"
    /\ epsilon_tr = <<1, 1>>
    /\ vertices[ip_i] = CGPT
    /\ P_col >= 2
    /\ P_i # <<>>
    /\ P_i[1].ja = P_col - 1

(***************************************************************************)
(* fasp_dcsr_trans and the Galerkin product R*A*P of one level.  Arrays    *)
(* are functions on 0 .. n-1.                                              *)
(***************************************************************************)
MaxDim == 2     \* largest row and column count of P
MaxNnz == 3     \* largest number of stored entries of P

PValues == {-1, 2}          \* stored values of P
OffDiagonals == {-1, 0}     \* entries of A off the diagonal
Diagonals == {2}            \* entries of A on the diagonal

\* the positions of a set in ascending order of <<row, column>>
RECURSIVE RowMajor(_)
RowMajor(e) ==
    IF e = {} THEN <<>>
    ELSE LET f == CHOOSE x \in e : \A y \in e :
                      x[1] < y[1] \/ (x[1] = y[1] /\ x[2] <= y[2])
         IN  <<f>> \o RowMajor(e \ {f})

\* the CSR matrix with the entries e (positions) of values v
CSR(n, m, e, v) ==
    LET seq == RowMajor(e) IN
    [row |-> n, col |-> m, nnz |-> Len(seq),
     IA  |-> [r \in 0 .. n |-> Cardinality({x \in e : x[1] < r})],
     JA  |-> [p \in 0 .. (Len(seq) - 1) |-> seq[p + 1][2]],
     val |-> [p \in 0 .. (Len(seq) - 1) |-> v[seq[p + 1]]]]

\* the symmetric matrices of n rows
SymmetricInputs(n) ==
    {a \in [0 .. (n - 1) -> [0 .. (n - 1) -> OffDiagonals \cup Diagonals]] :
        \A r, c \in 0 .. (n - 1) :
            /\ a[r][c] = a[c][r]
            /\ (r = c) <=> a[r][c] \in Diagonals}

\* first pass: if (i<m-1) AT->IA[i+2]++ over the entries of A
FirstPass(A) ==
    [x \in 0 .. A.col |->
        IF x >= 2
        THEN Cardinality({p \in 0 .. (A.nnz - 1) : A.JA[p] = x - 2})
        ELSE 0]

\* for (i=2;i<=m;++i) AT->IA[i]+=AT->IA[i-1]
RECURSIVE Accumulate(_, _, _)
Accumulate(ia, x, m) ==
    IF x > m THEN ia
    ELSE Accumulate([ia EXCEPT ![x] = ia[x] + ia[x - 1]], x + 1, m)

\* the second pass with the column index stored in place of the row index
Place_KeepColumn(at, A, r, p) ==
    LET j == A.JA[p] + 1
        k == at.IA[j]
    IN  [at EXCEPT !.JA[k] = A.JA[p], !.val[k] = A.val[p], !.IA[j] = k + 1]

\* j=A->JA[p]+1; k=AT->IA[j]; AT->JA[k]=i; AT->val[k]=A->val[p]; AT->IA[j]=k+1
Place(at, A, r, p) ==
    LET j == A.JA[p] + 1
        k == at.IA[j]
    IN  [at EXCEPT !.JA[k] = r, !.val[k] = A.val[p], !.IA[j] = k + 1]

\* second pass, from entry p of row r onwards
RECURSIVE SecondPass(_, _, _, _)
SecondPass(at, A, r, p) ==
    IF r >= A.row THEN at
    ELSE IF p >= A.IA[r + 1] THEN SecondPass(at, A, r + 1, p)
    ELSE SecondPass(Place(at, A, r, p), A, r, p + 1)

\* fasp_dcsr_trans(A, AT); the arrays are calloc'ed
fasp_dcsr_trans(A) ==
    SecondPass([row |-> A.col, col |-> A.row, nnz |-> A.nnz,
                IA  |-> Accumulate(FirstPass(A), 2, A.col),
                JA  |-> [p \in 0 .. (A.nnz - 1) |-> 0],
                val |-> [p \in 0 .. (A.nnz - 1) |-> 0]],
               A, 0, 0)

\* entry (r, c) of a CSR matrix, the stored entries of the position added up
RECURSIVE EntrySum(_, _, _)
EntrySum(M, c, ps) ==
    IF ps = {} THEN 0
    ELSE LET p == CHOOSE x \in ps : TRUE
         IN  (IF M.JA[p] = c THEN M.val[p] ELSE 0) + EntrySum(M, c, ps \ {p})

Entry(M, r, c) == EntrySum(M, c, M.IA[r] .. (M.IA[r + 1] - 1))

RECURSIVE Sum(_, _)
Sum(f, dom) ==
    IF dom = {} THEN 0
    ELSE LET x == CHOOSE y \in dom : TRUE IN f[x] + Sum(f, dom \ {x})

\* the Galerkin product R*A*P
fasp_blas_dcsr_rap(R, A, P) ==
    LET n  == 0 .. (P.row - 1)
        AP == [r \in n |-> [c \in 0 .. (P.col - 1) |->
                  Sum([k \in n |-> A[r][k] * Entry(P, k, c)], n)]]
    IN  [a \in 0 .. (R.row - 1) |-> [b \in 0 .. (P.col - 1) |->
            Sum([k \in n |-> Entry(R, a, k) * AP[k][b]], n)]]

RAPInit ==
    /\ \E n, m \in 1 .. MaxDim :
           /\ mgl_A \in SymmetricInputs(n)
           /\ \E e \in SUBSET ((0 .. (n - 1)) \X (0 .. (m - 1))) :
                  /\ Cardinality(e) <= MaxNnz
                  /\ \E v \in [e -> PValues] : mgl_P = CSR(n, m, e, v)
    /\ mgl_R = <<>>
    /\ mgl_A1 = <<>>
    /\ rap_pc = "trans"
    /\ NoSplitter
    /\ NoHierarchy
    /\ NoCycle
    /\ NoSetup
    /\ NoStrength
    /\ NoAggressive
    /\ NoInterp
    /\ NoSort

\* fasp_dcsr_trans(&mgl[level].P, &mgl[level].R)
FormRestriction ==
    /\ rap_pc = "trans"
    /\ mgl_R' = fasp_dcsr_trans(mgl_P)
    /\ rap_pc' = "rap"
    /\ UNCHANGED <<mgl_A, mgl_P, mgl_A1>>
    /\ UNCHANGED <<cfVars, hVars, cyVars, suVars, gsVars, agVars, ipVars,
                   sortVars>>

\* fasp_blas_dcsr_rap(&mgl[level].R, &mgl[level].A, &mgl[level].P, &mgl[level+1].A)
FormCoarseMatrix ==
    /\ rap_pc = "rap"
    /\ mgl_A1' = fasp_blas_dcsr_rap(mgl_R, mgl_A, mgl_P)
    /\ rap_pc' = "done"
    /\ UNCHANGED <<mgl_A, mgl_P, mgl_R>>
    /\ UNCHANGED <<cfVars, hVars, cyVars, suVars, gsVars, agVars, ipVars,
                   sortVars>>

RAPNext == FormRestriction \/ FormCoarseMatrix

SpecRAP == RAPInit /\ [][RAPNext]_vars

(***************************************************************************)
(* Properties of the restriction and of the coarse matrix.                 *)
(***************************************************************************)
\* the stored entries of a CSR matrix as <<row, column, value>>
Stored(M) ==
    UNION {{<<r, M.JA[p], M.val[p]>> : p \in M.IA[r] .. (M.IA[r + 1] - 1)} :
              r \in 0 .. (M.row - 1)}

\* the row offsets run from 0 to nnz without going down
WellFormed(M) ==
    /\ M.IA[0] = 0
    /\ M.IA[M.row] = M.nnz
    /\ \A r \in 0 .. (M.row - 1) : M.IA[r] <= M.IA[r + 1]

\* C20: when A is symmetric, the R that the setup stores is the transpose of
\* P, the same stored entries with row and column swapped, and the coarse
\* matrix R*A*P formed from them is symmetric.
C20_TransposeAndSymmetric ==
    /\ rap_pc \in {"rap", "done"} =>
           /\ mgl_R.row = mgl_P.col
           /\ mgl_R.col = mgl_P.row
           /\ mgl_R.nnz = mgl_P.nnz
           /\ WellFormed(mgl_R)
           /\ Stored(mgl_R) = {<<t[2], t[1], t[3]>> : t \in Stored(mgl_P)}
    /\ rap_pc = "done" =>
           \A a, b \in 0 .. (mgl_P.col - 1) : mgl_A1[a][b] = mgl_A1[b][a]

\* a P of two columns with three entries, and a coarse matrix that couples
\* its two rows
C20_Witness ==
    /\ rap_pc = "done"
    /\ mgl_P.col = 2
    /\ mgl_P.nnz = 3
    /\ mgl_A1[0][1] # 0

(***************************************************************************)
(* Properties of the adaptive threshold of amg_setup_unsmoothP_unsmoothR.  *)
(***************************************************************************)
\* a turn of the loop with VMB aggregation that goes on to the next level;
\* the number of aggregates is the row count of the new level
VMBStep ==
    /\ amg_setup = "ua" /\ param.aggregation_type = "VMB"
    /\ level' = level + 1

\* num_aggs[lvl]*4 > mgl[lvl].A.row
TooManyAggs == 4 * rows'[level' + 1] > rows[level + 1]

\* num_aggs[lvl]*1.25 < mgl[lvl].A.row
TooFewAggs == 5 * rows'[level' + 1] < 4 * rows[level + 1]

Lowered == param'.strong_coupled < param.strong_coupled
Raised == param'.strong_coupled > param.strong_coupled

C22_StandardInterpReturns ==
    (/\ amg_setup = "rs"
     /\ EffectiveInterp(param.coarsening_type, param.interpolation_type)
            = "INTERP_STD")
        => setup_pc # "exit"

(***************************************************************************)
(* The queue at the head of the two main loops.  The aggressive path is    *)
(* taken here with one strong coupling more than MaxAgEdges, so that the   *)
(* second stage queues two temporary coarse points, on matrices without    *)
(* Isolated rows: an Isolated vertex is never a coarse point and so never  *)
(* met by the second stage.                                                *)
(***************************************************************************)
WideAgEdges == MaxAgEdges + 1

\* the start of the aggressive path on a matrix without Isolated rows: a row
\* without strong couplings holds its diagonal and a weak coupling
AGInitWide ==
    /\ \E edges \in {e \in SUBSET Pairs : Cardinality(e) <= WideAgEdges} :
           /\ edges # {}
           /\ S = RowsOf(edges)
    /\ nnzRow = [v \in V |-> IF S[v] = <<>> THEN 2 ELSE 1 + Len(S[v])]
    /\ interp_type = "INTERP_STD"
    /\ vec = [v \in V |-> UNPT]
    /\ lambda = [v \in V |-> 0]
    /\ lists = <<>>
    /\ num_left = 0
    /\ col = 0
    /\ pc = "start"
    /\ i = 0
    /\ ci_tilde = -1
    /\ ci_tilde_mark = -1
    /\ C_i_nonempty = 0
    /\ graph_array = [v \in V |-> 0]
    /\ NoHierarchy
    /\ NoCycle
    /\ NoSetup
    /\ NoStrength
    /\ NoLater
    /\ ag_pc = "phase1"
    /\ Sh = <<>>
    /\ cp_index = <<>>
    /\ ag_lambda = <<>>
    /\ ag_lists = <<>>
    /\ ag_num_left = 0
    /\ ag_col = 0
    /\ omp = <<>>
    /\ chunk = <<>>
    /\ sub_col = <<>>
    /\ vec_phase3 = <<>>

LoopsInit == CFInit \/ AGInitWide

SpecLoops == LoopsInit /\ [][SplitNext]_vars

\* the queued coarse points that are still temporary coarse points, the
\* Undecided of the second stage
AGUndecided == {ci \in Queued(ag_lists) : vec[cp_index[ci]] = CGPT}

\* C23: at every head of the main loop of form_coarse_level and of the
\* second-stage loop of form_coarse_level_ag the remaining-count equals the
\* number of queued Undecided vertices and is not negative, so the queue is
\* not empty whenever its head is extracted.
C23_QueueNonEmptyAtExtraction ==
    /\ pc = "main" =>
          /\ num_left = Cardinality(Queued(lists) \cap Undecided)
          /\ num_left >= 0
          /\ Positive(num_left) => lists # <<>>
    /\ ag_pc = "main" =>
          /\ ag_num_left = Cardinality(AGUndecided)
          /\ ag_num_left >= 0
          /\ Positive(ag_num_left) => ag_lists # <<>>
    /\ pc # "crash"
    /\ ag_pc # "crash"

\* the second-stage loop has extracted one head and another temporary coarse
\* point is still queued
C23_Witness ==
    /\ ag_pc = "main"
    /\ ag_col = 1
    /\ ag_num_left = 1
    /\ ag_lists # <<>>

(***************************************************************************)
(* The number the splitter returns to fasp_amg_coarsening_rs.              *)
(***************************************************************************)
\* C24 as stated: the number returned by the splitter, which becomes P->col,
\* is the number of vertices labelled Coarse at the return, for
\* form_coarse_level (phase two included) and for form_coarse_level_ag
\* (phase three included).
C24_ReturnedIsNumberOfCoarse ==
    /\ (pc = "done" /\ ag_pc = "idle") => col = NumCoarse(vec)
    /\ ag_pc = "done" => ag_col = NumCoarse(vec)

(***************************************************************************)
(* Phase two of form_coarse_level as a loop that ends.  The program runs   *)
(* on as long as a turn of the loop, or the return, is possible.           *)
(***************************************************************************)
SpecCFLive == CFInit /\ [][CFNext]_vars /\ WF_vars(PhaseTwo \/ Return)

\* a turn of the phase-two loop that ends in i-- : vertex i is examined again
ReExamined == pc = "phase2" /\ pc' = "phase2" /\ i' = i

\* the turn promotes a Fine strong neighbour of the Fine vertex i tentatively
TentativePromotion ==
    /\ vec[i] = FGPT
    /\ C_i_nonempty = 0 /\ C_i_nonempty' = 1
    /\ \E j \in Strong(i) : vec[j] = FGPT /\ vec'[j] = CGPT /\ ci_tilde' = j

\* a vertex goes from Coarse back to Fine in this turn
Returned_To_Fine(v) == vec[v] = CGPT /\ vec'[v] = FGPT

\* C25: phase two ends for every input; a vertex is examined again only in
\* the turn after the tentative promotion of one of its neighbours, and that
\* turn moves on to the next vertex; the only vertex that ever goes back to
\* Fine is the tentatively promoted one, in the turn right after its promotion.
C25_RepairPassTerminates ==
    /\ (pc = "phase2") ~> (pc = "done")
    /\ [][(pc = "phase2" /\ pc' = "phase2") =>
             /\ i' = i \/ i' = i + 1
             /\ ReExamined => TentativePromotion
             /\ C_i_nonempty # 0 => i' = i + 1
             /\ \A v \in V : Returned_To_Fine(v) =>
                    /\ v = ci_tilde /\ C_i_nonempty # 0
                    /\ ci_tilde_mark = i]_vars

\* a vertex has been examined again after a tentative promotion and phase two
\* has ended
C25_Witness ==
    /\ pc = "done"
    /\ interp_type # "INTERP_STD"
    /\ ci_tilde_mark >= 0

(***************************************************************************)
(* The turn of phase two that examines vertex i again.                     *)
(***************************************************************************)
\* vertex i is about to be examined again: its neighbour ci_tilde has been
\* promoted tentatively in the turn before
SecondExamination ==
    /\ pc = "phase2" /\ i < NumV
    /\ C_i_nonempty # 0
    /\ ci_tilde_mark = i
    /\ ci_tilde > -1

\* i still has a strong Fine neighbour that shares no Coarse point with it
StillFailing == Failing(MarkCoarse(graph_array, i), i) # {}

\* C26 as stated: when i is examined again after the tentative promotion of
\* j and still has a failing neighbour, i is made Coarse and j is returned
\* to Fine, the count growing by one for i over the two turns; and the
\* tentative-promotion state is not carried over to another vertex.
C26_SwapAtSecondExamination ==
    [][/\ (SecondExamination /\ StillFailing) =>
              /\ vec'[i] = CGPT
              /\ vec'[ci_tilde] = FGPT
              /\ col' = col
       /\ (pc = "phase2" /\ i' = i + 1) =>
              /\ C_i_nonempty' = 0
              /\ ci_tilde' = -1]_vars

(***************************************************************************)
(* The labels form_coarse_level_ag returns.                                *)
(***************************************************************************)
\* the Coarse vertices among the strong neighbours of v
CoarseNeighbours(v) == {k \in Strong(v) : vec[k] = CGPT}

\* C27: after aggressive coarsening returns, every Fine vertex has a strong
\* Coarse neighbour, or a strong Fine neighbour that has a strong Coarse
\* neighbour.
C27_CoarseWithinDistanceTwo ==
    ag_pc = "done" =>
        \A v \in V : vec[v] = FGPT =>
            \/ CoarseNeighbours(v) # {}
            \/ \E k \in Strong(v) : vec[k] = FGPT /\ CoarseNeighbours(k) # {}

\* aggressive coarsening has returned, phase three has promoted a vertex, and
\* a Fine vertex has its nearest Coarse vertex at distance two
C27_Witness ==
    /\ ag_pc = "done"
    /\ \E v \in V : vec_phase3[v] = FGPT /\ vec[v] = CGPT
    /\ \E v \in V : /\ vec[v] = FGPT
                    /\ CoarseNeighbours(v) = {}
                    /\ \E k \in Strong(v) : vec[k] = FGPT /\ CoarseNeighbours(k) # {}

(***************************************************************************)
(* The levels a call of fasp_solver_mgrecur touches.                       *)
(***************************************************************************)
\* the entry of a call on level lev: A0 = &mgl[level].A, A1 = &mgl[level+1].A
\* and const INT m0 = A0->row, m1 = A1->row, before the test of the level
EntryLevels(lev) == {lev, lev + 1}

\* C28 as stated, its first part: during a cycle, level data is read or
\* written only at the level indices 0 .. num_levels-1.
C28_LevelIndicesInRange ==
    \A k \in DOMAIN stack :
        EntryLevels(stack[k].level) \subseteq 0 .. (num_levels - 1)

(***************************************************************************)
(* The caller's AMG_param across the setup.                                *)
(***************************************************************************)
\* the fields of param the setup functions assign in their main loops
Configuration(p) ==
    <<p.coarsening_type, p.aggressive_level, p.strong_coupled,
      p.quality_bound, p.ILU_levels>>

\* C29 as stated: hierarchy construction leaves the caller's configuration
\* unchanged (coarsening type, aggressive level, strong-coupling threshold,
\* quality bound, number of ILU levels), so a second construction from the
\* same parameter object starts from the same configuration.
C29_ConfigurationUnchanged ==
    [][Configuration(param') = Configuration(param)]_vars

(***************************************************************************)
(* fasp_dcsr_sort and fasp_aux_iQuickSortIndex.  The matrices sorted have  *)
(* up to MaxDim columns and one row more than that, so that a matrix with  *)
(* more rows than columns has a row of two entries; the stored columns of  *)
(* a row are distinct and in any order.                                    *)
(***************************************************************************)
SortMaxRows == MaxDim + 1

\* the orders in which the entries e can be stored: row after row, the
\* entries of a row in any order
StoredOrders(e) ==
    {s \in [1 .. Cardinality(e) -> e] :
        /\ \A p, q \in DOMAIN s : p # q => s[p] # s[q]
        /\ \A p, q \in DOMAIN s : p < q => s[p][1] <= s[q][1]}

\* the CSR matrix that stores the entries e, of values v, in the order s
Unsorted(n, m, e, v, s) ==
    [row |-> n, col |-> m, nnz |-> Cardinality(e),
     IA  |-> [r \in 0 .. n |-> Cardinality({x \in e : x[1] < r})],
     JA  |-> [p \in 0 .. (Cardinality(e) - 1) |-> s[p + 1][2]],
     val |-> [p \in 0 .. (Cardinality(e) - 1) |-> v[s[p + 1]]]]

iSwapping(w, a, b) == [w EXCEPT ![a] = w[b], ![b] = w[a]]

\* for (i = left+1; i <= right; ++i) if (a[index[i]] < a[index[left]])
\* iSwapping(index, ++last, i); gives <<index, last>>
RECURSIVE Partition(_, _, _, _, _, _)
Partition(a, index, left, right, k, last) ==
    IF k > right THEN <<index, last>>
    ELSE IF a[index[k]] < a[index[left]]
         THEN Partition(a, iSwapping(index, last + 1, k), left, right,
                        k + 1, last + 1)
         ELSE Partition(a, index, left, right, k + 1, last)

RECURSIVE fasp_aux_iQuickSortIndex(_, _, _, _)
fasp_aux_iQuickSortIndex(a, left, right, index) ==
    IF left >= right THEN index
    ELSE LET i0 == iSwapping(index, left, (left + right) \div 2)
             p  == Partition(a, i0, left, right, left + 1, left)
             i1 == iSwapping(p[1], left, p[2])
             i2 == fasp_aux_iQuickSortIndex(a, left, p[2] - 1, i1)
         IN  fasp_aux_iQuickSortIndex(a, p[2] + 1, right, i2)

\* one turn of for (i=0;i<n;++i) on a row the matrix has
SortRow(A, r) ==
    LET start      == A.IA[r]
        row_length == A.IA[r + 1] - start
        a          == [j \in 0 .. (row_length - 1) |-> A.JA[start + j]]
        index      == fasp_aux_iQuickSortIndex(
                          a, 0, row_length - 1,
                          [j \in 0 .. (row_length - 1) |-> j])
        InRow(p)   == p >= start /\ p < start + row_length
    IN  [A EXCEPT
           !.JA  = [p \in DOMAIN A.JA |->
                       IF InRow(p) THEN A.JA[start + index[p - start]]
                       ELSE A.JA[p]],
           !.val = [p \in DOMAIN A.val |->
                       IF InRow(p) THEN A.val[start + index[p - start]]
                       ELSE A.val[p]]]

\* the turns for the rows r .. last-1
RECURSIVE SortRowsFrom(_, _, _)
SortRowsFrom(A, r, last) ==
    IF r >= last THEN A ELSE SortRowsFrom(SortRow(A, r), r + 1, last)

\* const INT n=A->col; for (i=0;i<n;++i): the turns that stay within IA
fasp_dcsr_sort(A) ==
    SortRowsFrom(A, 0, IF A.col < A.row THEN A.col ELSE A.row)

SortInit ==
    /\ \E n \in 1 .. SortMaxRows, m \in 1 .. MaxDim :
       \E e \in SUBSET ((0 .. (n - 1)) \X (0 .. (m - 1))) :
           /\ Cardinality(e) <= MaxNnz
           /\ \E v \in [e -> PValues], s \in StoredOrders(e) :
                  sort_in = Unsorted(n, m, e, v, s)
    /\ sort_A = sort_in
    /\ sort_pc = "sort"
    /\ NoSplitter
    /\ NoHierarchy
    /\ NoCycle
    /\ NoSetup
    /\ NoStrength
    /\ NoAggressive
    /\ NoInterp
    /\ NoGalerkin

\* fasp_dcsr_sort(A).  With more columns than rows the turns i >= A->row read
\* A->IA[i+1] past the end of IA: the value read is indeterminate, and the
\* turn either finds no entries or sorts memory outside JA and val.
Sort ==
    /\ sort_pc = "sort"
    /\ sort_A' = fasp_dcsr_sort(sort_A)
    /\ IF sort_A.col > sort_A.row
       THEN sort_pc' \in {"done", "out of bounds"}
       ELSE sort_pc' = "done"
    /\ UNCHANGED sort_in
    /\ UNCHANGED <<cfVars, hVars, cyVars, suVars, gsVars, agVars, ipVars,
                   rapVars>>

SortNext == Sort

SpecSort == SortInit /\ [][SortNext]_vars

\* the (column, value) pairs stored in row r of M
RowPairs(M, r) ==
    {<<M.JA[p], M.val[p]>> : p \in M.IA[r] .. (M.IA[r + 1] - 1)}

\* the stored columns of row r of M ascend
ColumnsAscend(M, r) ==
    \A p, q \in M.IA[r] .. (M.IA[r + 1] - 1) : p < q => M.JA[p] < M.JA[q]

\* C30 as stated: after fasp_dcsr_sort, whatever the shape of A, the column
\* indices of every row are in ascending order, every row holds the same
\* (column, value) pairs as before, and the row offsets are unchanged.
C30_EveryRowSorted ==
    sort_pc \in {"done", "out of bounds"} =>
        /\ sort_A.IA = sort_in.IA
        /\ \A r \in 0 .. (sort_A.row - 1) :
               /\ ColumnsAscend(sort_A, r)
               /\ RowPairs(sort_A, r) = RowPairs(sort_in, r)

====
